---------------------------- MODULE Spec2Model ----------------------------
(***************************************************************************)
(* Model of the pill-image dataset pipeline: the sampler                   *)
(* (pruning_dataset/modules/dataset_splitter.py), the letterbox geometry   *)
(* (data_preprocess/modules/preprocessing.py), the COCO -> YOLO converter  *)
(* (annotation_converter.py), the train/val/test splitter with its copy    *)
(* step and dataset.yaml (dataset_split.py), the label analysis and the    *)
(* quality metrics (data_analyzer.py), the validation                      *)
(* (data_preprocess/modules/validation.py) and preprocess_dataset.         *)
(*                                                                         *)
(* Conventions.                                                            *)
(*  - A file name is a sequence of tokens ("K", "-", "_", ".png", ...), so *)
(*    str.split and str.replace are computed, not assumed.                 *)
(*  - Python floats round to nearest, ties to even.  The splitter's        *)
(*    int(n * ratio) is computed on doubles digit by digit (DoubleBits);   *)
(*    the resize geometry on a narrower significand (MantissaBits); the    *)
(*    analyzer's ratios, which are only rounded to three decimals, as      *)
(*    exact rationals, a numerator over a stated denominator.              *)
(*  - random.shuffle is a nondeterministic permutation; random.sample is a *)
(*    nondeterministic choice of a k-subset, kept in population order (the *)
(*    order of a sample is not observed by any property below).            *)
(*  - glob order is one fixed enumeration where a shuffle follows it.      *)
(***************************************************************************)
EXTENDS Integers, Sequences, FiniteSets, TLC

VARIABLES
    \* ---- splitter (dataset_split.py) ----
    image_files,     \* names of input_path/train_images/*.png
    label_files,     \* names having input_path/yolo_labels/<name>.txt
    train_ratio, val_ratio, test_ratio,   \* in tenths
    pairs,           \* list of [name, pill_code]
    pill_groups,     \* pill_code -> list of pairs
    group_order,     \* insertion order of pill_groups' keys
    train_pairs, val_pairs, test_pairs,
    pcSplit,
    \* ---- sampler (dataset_splitter.py) ----
    source_images,   \* names of source_path/train_images/*.png
    strategy,        \* sampling_strategy
    train_size,      \* requested number of train pairs
    valid_pairs,     \* images whose annotation file was found
    groups,          \* pill code -> list of pairs (_balanced_sample)
    sample_order,    \* groups still to be sampled, in insertion order
    selected,        \* the sample built so far / returned
    pcSample,
    \* ---- geometry (preprocessing.py) ----
    width, height,   \* size of the original image
    target_size,
    bbox,            \* <<x, y, w, h>> of the annotation read
    resize_params,   \* result of calculate_resize_params
    new_bbox,        \* bbox written back, each entry a float
    ann_size,        \* <<width, height>> in the annotation's images entry
    pcGeom,
    \* ---- converter (annotation_converter.py) ----
    json_files,      \* the annotation files, in glob order
    scan_pos,        \* files read so far by the collection loop
    all_pill_codes,  \* set of pill codes collected
    valid_files,     \* contents of the files kept
    sorted_codes,    \* also the lines of classes.txt
    code_to_id,
    conv_queue,      \* <<file, image>> index pairs still to convert
    labels,          \* label files written: base name -> list of lines
    converted_count,
    pcConv,
    \* ---- quality metrics (data_analyzer.py) ----
    analysis_results,  \* split -> [image_count, label_count]
    metrics,           \* metric name -> value in thousandths
    metric_todo,       \* splits the consistency loop has still to handle
    pcQual,
    \* ---- overall statistics (data_analyzer.py) ----
    has_yaml,          \* dataset_path/dataset.yaml exists
    has_classes_file,  \* dataset_path/classes.txt exists
    output_given,      \* analyze_yolo_dataset got an output_path
    dataset_info,      \* result of _load_dataset_info
    split_analysis,    \* split -> what _analyze_split returns for it:
                       \*   [image_count, label_count, total_objects,
                       \*    class_distribution]
    report,            \* the report analyze_yolo_dataset returns
    report_saved,      \* dataset_analysis_report.json was written
    class_dist,        \* argument of _calculate_class_balance_score
    balance_score,     \* its result, in thousandths
    overall_stats,     \* result of _generate_overall_stats
    pcStats,
    \* ---- dataset creation (create_small_dataset and its callers) ----
    entry,             \* "config": create_dataset_with_config,
                       \* "custom": run_custom_pipeline
    test_size,         \* requested number of test images
    test_images,       \* names of source_path/test_images/*.png
    test_files,        \* result of _extract_test_files
    out_dirs,          \* directories created under output_path
    train_copied,      \* names copied into output_path/train_images
    test_copied,       \* names copied into output_path/test_images
    pcCreate,
    \* ---- validation (validation.py) ----
    val_train,         \* data_path/train_images: list of [image, annotation]
    val_test,          \* data_path/test_images: list of [image, annotation]
    img_pos,           \* images examined so far by validate_images
    img_valid, img_issues,
    ann_pos,           \* images examined so far by validate_annotations
    ann_valid, ann_issues,
    pcVal,
    \* ---- one group of _stratified_split, by its size ----
    group_len,         \* n = len(group_pairs)
    contributed,       \* lengths of the three slices of the group
    pcSlice,
    \* ---- label analysis of one split (data_analyzer.py _analyze_split) ----
    class_names,       \* the vocabulary passed in
    lines,             \* f.readlines() of the label file read last
    lbl_pos,           \* label files handled so far
    analysis,          \* the analysis dict being built
    pcLabels,
    \* ---- preprocess_dataset (preprocessing.py) ----
    prep_train,        \* input train images, in glob order
    prep_test,         \* input test images, in glob order
    prep_pos,          \* images handled so far in the current loop
    processed_count, failed_count,
    pcPrep,
    \* ---- dataset.yaml and the output tree of the split stage ----
    dataset_config,    \* the dict dumped to dataset.yaml
    pcYaml,
    out_files,         \* split name -> names present in images/<split>
    run_count          \* runs of split_dataset_for_yolo started so far

splitVars == <<image_files, label_files, train_ratio, val_ratio, test_ratio,
               pairs, pill_groups, group_order,
               train_pairs, val_pairs, test_pairs, pcSplit>>

sampleVars == <<source_images, strategy, train_size, valid_pairs, groups,
                sample_order, selected, pcSample>>

geomVars == <<width, height, target_size, bbox, resize_params, new_bbox,
              ann_size, pcGeom>>

convVars == <<json_files, scan_pos, all_pill_codes, valid_files,
              sorted_codes, code_to_id, conv_queue, labels,
              converted_count, pcConv>>

qualVars == <<analysis_results, metrics, metric_todo, pcQual>>

statVars == <<has_yaml, has_classes_file, output_given, dataset_info,
              split_analysis, report, report_saved,
              class_dist, balance_score, overall_stats, pcStats>>

createVars == <<entry, test_size, test_images, test_files, out_dirs,
                train_copied, test_copied, pcCreate>>

valVars == <<val_train, val_test, img_pos, img_valid, img_issues,
             ann_pos, ann_valid, ann_issues, pcVal>>

sliceVars == <<group_len, contributed, pcSlice>>

labelVars == <<class_names, lines, lbl_pos, analysis, pcLabels>>

prepVars == <<prep_train, prep_test, prep_pos, processed_count, failed_count,
              pcPrep>>

yamlVars == <<dataset_config, pcYaml>>

outVars == <<out_files, run_count>>

vars == <<splitVars, sampleVars, geomVars, convVars, qualVars, statVars,
          createVars, valVars, sliceVars, labelVars, prepVars, yamlVars,
          outVars>>

\* The components added last, which every earlier action leaves alone.
lateVars == <<labelVars, prepVars, yamlVars, outVars>>

notSplit == <<sampleVars, geomVars, convVars, qualVars, statVars, createVars,
    valVars, sliceVars, lateVars>>
notSample == <<splitVars, geomVars, convVars, qualVars, statVars, createVars,
    valVars, sliceVars, lateVars>>
notGeom == <<splitVars, sampleVars, convVars, qualVars, statVars, createVars,
    valVars, sliceVars, lateVars>>
notConv == <<splitVars, sampleVars, geomVars, qualVars, statVars, createVars,
    valVars, sliceVars, lateVars>>
notQual == <<splitVars, sampleVars, geomVars, convVars, statVars, createVars,
    valVars, sliceVars, lateVars>>
notStat == <<splitVars, sampleVars, geomVars, convVars, qualVars, createVars,
    valVars, sliceVars, lateVars>>
\* create_small_dataset runs the sampler, so it leaves only these alone.
notCreate == <<splitVars, geomVars, convVars, qualVars, statVars, valVars,
              sliceVars, lateVars>>
notVal == <<splitVars, sampleVars, geomVars, convVars, qualVars, statVars,
            createVars, sliceVars, lateVars>>

--------------------------------------------------------------------------
(* Sequence helpers *)

Range(s) == {s[i] : i \in 1..Len(s)}

\* The permutations of 1..n (the outcomes of random.shuffle on n items).
Perms(n) == {p \in [1..n -> 1..n] : \A i, j \in 1..n : p[i] = p[j] => i = j}

Permute(s, p) == [i \in 1..Len(s) |-> s[p[i]]]

\* One fixed enumeration of a finite set (an order glob may return).
RECURSIVE SetToSeq(_)
SetToSeq(S) ==
    IF S = {} THEN <<>>
    ELSE LET x == CHOOSE y \in S : TRUE IN <<x>> \o SetToSeq(S \ {x})

\* Index of the first occurrence of token d in s, 0 when absent.
RECURSIVE FirstIndex(_, _, _)
FirstIndex(s, d, i) ==
    IF i > Len(s) THEN 0
    ELSE IF s[i] = d THEN i
    ELSE FirstIndex(s, d, i + 1)

\* str.split(d): the parts between the occurrences of d.
RECURSIVE StrSplit(_, _)
StrSplit(s, d) ==
    LET i == FirstIndex(s, d, 1) IN
    IF i = 0 THEN <<s>>
    ELSE <<SubSeq(s, 1, i - 1)>> \o StrSplit(SubSeq(s, i + 1, Len(s)), d)

\* str.replace(tok, ''): every occurrence of the token removed.
StrRemove(s, tok) == SelectSeq(s, LAMBDA c : c # tok)

\* int(n * ratio) for ratio = tenths/10, n >= 0, tenths >= 0.
FloorTenths(n, tenths) == (n * tenths) \div 10

--------------------------------------------------------------------------
(* Splitter: dataset_split.py *)

\* Bound on the ratios tried (in tenths; 12 is a ratio above 1).
MaxRatioTenths == 12

TrainRatios == {0, 5, 8, MaxRatioTenths}
ValRatios   == {0, 1, 5}
TestRatios  == {1, 2}

SN1 == <<"K", "-", "1", "-", "5", "_", "0">>
SN2 == <<"K", "-", "1", "-", "6", "_", "0">>
SN3 == <<"K", "-", "1", "-", "7", "_", "0">>
SN4 == <<"K", "-", "2", "-", "5", "_", "0">>
SN5 == <<"x", "_", "0">>
SN6 == <<"K", "-", "2", "-", "6", "_", "0">>

\* Images the split stage may find; SN6 never has a label file.
SplitNames == {SN1, SN2, SN3, SN4, SN5, SN6}
Unlabelled == {SN6}

\* _extract_pill_code: parts[1] of split('-'), else split('_')[0].
\* (The except branch is unreachable: split and indexing [0] cannot raise.)
ExtractPillCodeSplit(filename) ==
    LET parts == StrSplit(filename, "-") IN
    IF Len(parts) >= 2 THEN parts[2]
    ELSE StrSplit(filename, "_")[1]

\* _get_image_label_pairs: the images whose label file exists.
GetImageLabelPairs(images, label_set) ==
    LET img == SetToSeq(images)
        kept == SelectSeq(img, LAMBDA n : n \in label_set)
    IN [i \in 1..Len(kept) |->
            [name |-> kept[i], pill_code |-> ExtractPillCodeSplit(kept[i])]]

\* The grouping loop of _stratified_split: defaultdict(list) filled in
\* list order; keys in insertion order.
RECURSIVE GroupOrder(_, _)
GroupOrder(ps, seen) ==
    IF ps = <<>> THEN <<>>
    ELSE IF Head(ps).pill_code \in seen THEN GroupOrder(Tail(ps), seen)
    ELSE <<Head(ps).pill_code>>
            \o GroupOrder(Tail(ps), seen \cup {Head(ps).pill_code})

GroupBy(ps) ==
    [c \in {ps[i].pill_code : i \in 1..Len(ps)} |->
        SelectSeq(ps, LAMBDA p : p.pill_code = c)]

\* Python slice s[a:b]: an index clamps to len(s), and a negative index
\* counts from the end (clamped to 0).
SliceIndex(s, i) ==
    IF i < 0 THEN (IF Len(s) + i < 0 THEN 0 ELSE Len(s) + i)
    ELSE IF i > Len(s) THEN Len(s) ELSE i

Slice(s, a, b) ==
    LET lo == SliceIndex(s, a)
        hi == SliceIndex(s, b)
    IN IF hi <= lo THEN <<>> ELSE SubSeq(s, lo + 1, hi)

\* The ratios are Python floats, IEEE-754 doubles: DoubleBits significant
\* binary digits, round to nearest, ties to even.  A double is held digit by
\* digit, [bits |-> <<1, ...>>, e |-> k]: the number written by bits in base
\* 2, most significant digit first, times 2^k; zero has no digits.
DoubleBits == 53

Dbl(bits, e) == [bits |-> bits, e |-> e]

RECURSIVE BinaryOf(_)
BinaryOf(n) == IF n = 0 THEN <<>> ELSE Append(BinaryOf(n \div 2), n % 2)

RECURSIVE ValueOf(_)
ValueOf(bits) ==
    IF bits = <<>> THEN 0
    ELSE 2 * ValueOf(SubSeq(bits, 1, Len(bits) - 1)) + bits[Len(bits)]

RECURSIVE PlusOne(_)
PlusOne(bits) ==
    IF bits = <<>> THEN <<1>>
    ELSE IF bits[Len(bits)] = 0 THEN [bits EXCEPT ![Len(bits)] = 1]
    ELSE Append(PlusOne(SubSeq(bits, 1, Len(bits) - 1)), 0)

RECURSIVE StripZeros(_)
StripZeros(bits) ==
    IF bits # <<>> /\ bits[1] = 0 THEN StripZeros(Tail(bits)) ELSE bits

Zeros(k) == [i \in 1..k |-> 0]

\* The double nearest to digits * 2^e, where sticky = 1 says that the exact
\* number has further non-zero digits below the last one given.
DblRound(digits, e, sticky) ==
    LET bits == StripZeros(digits)
        len == Len(bits)
    IN IF len = 0 THEN Dbl(<<>>, 0)
       ELSE IF len <= DoubleBits
            THEN Dbl(bits \o Zeros(DoubleBits - len), e - (DoubleBits - len))
            ELSE LET kept == SubSeq(bits, 1, DoubleBits)
                     rest == SubSeq(bits, DoubleBits + 1, len)
                     tail == sticky = 1 \/ \E i \in 2..Len(rest) : rest[i] = 1
                     up == rest[1] = 1 /\ (tail \/ kept[DoubleBits] = 1)
                     m == IF up THEN PlusOne(kept) ELSE kept
                     k == len - DoubleBits
                 IN IF Len(m) > DoubleBits
                    THEN Dbl(SubSeq(m, 1, DoubleBits), e + k + 1)
                    ELSE Dbl(m, e + k)

\* Long division: the quotient's digits one at a time, r the remainder, until
\* there is one digit more than a double keeps; then rounded once.
RECURSIVE DivideBits(_, _, _, _)
DivideBits(r, den, bits, e) ==
    IF Len(bits) = DoubleBits + 1
    THEN DblRound(bits, e, IF r = 0 THEN 0 ELSE 1)
    ELSE LET b == IF 2 * r >= den THEN 1 ELSE 0
         IN DivideBits(2 * r - b * den, den,
                       IF bits = <<>> /\ b = 0 THEN <<>> ELSE Append(bits, b),
                       e - 1)

\* The double a / b for integers a >= 0, b > 0; also the value of the decimal
\* literal a/b, which Python rounds the same way.
DblDiv(a, b) ==
    IF a = 0 THEN Dbl(<<>>, 0)
    ELSE DivideBits(a % b, b, BinaryOf(a \div b), 0)

\* The digits of n, at least w of them.
Padded(n, w) ==
    LET b == BinaryOf(n) IN Zeros(w - Len(b)) \o b

\* v * f for an integer v >= 0 and a double f: the exact product, taken on
\* the significand in three pieces so that no intermediate number is large,
\* then rounded once.
DblMulInt(v, f) ==
    IF f.bits = <<>> THEN Dbl(<<>>, 0)
    ELSE LET w == 18
             base == 262144
             lo == ValueOf(SubSeq(f.bits, DoubleBits - w + 1, DoubleBits))
             mid == ValueOf(SubSeq(f.bits, DoubleBits - 2 * w + 1,
                                   DoubleBits - w))
             hi == ValueOf(SubSeq(f.bits, 1, DoubleBits - 2 * w))
             p_lo == v * lo
             p_mid == v * mid + p_lo \div base
             p_hi == v * hi + p_mid \div base
         IN DblRound(BinaryOf(p_hi) \o Padded(p_mid % base, w)
                         \o Padded(p_lo % base, w),
                     f.e, 0)

\* int(f) for a double f >= 0.
DblToInt(f) ==
    IF f.e >= 0 THEN ValueOf(f.bits \o Zeros(f.e))
    ELSE IF Len(f.bits) + f.e <= 0 THEN 0
    ELSE ValueOf(SubSeq(f.bits, 1, Len(f.bits) + f.e))

\* The doubles of the ratios 0.0, 0.1, ..., 2.0.
RatioDoubles == [tenths \in 0..20 |-> DblDiv(tenths, 10)]

\* int(n * ratio) with the ratio given in tenths.
IntOfProduct(n, tenths) ==
    DblToInt(DblMulInt(n, IF tenths \in DOMAIN RatioDoubles
                          THEN RatioDoubles[tenths]
                          ELSE DblDiv(tenths, 10)))

\* train_end = int(n * train_ratio) (line 109).
TrainEnd(n, tr) == IntOfProduct(n, tr)

\* Mutant of ValEnd: val_end = int(n * val_ratio), train_end not added.
ValEndNoOffset(n, tr, vr) == IntOfProduct(n, vr)

\* val_end = train_end + int(n * val_ratio) (line 110).
ValEnd(n, tr, vr) == TrainEnd(n, tr) + IntOfProduct(n, vr)

SampleIdle ==
    /\ source_images = {}
    /\ strategy = "none"
    /\ train_size = 0
    /\ valid_pairs = <<>>
    /\ groups = <<>>
    /\ sample_order = <<>>
    /\ selected = <<>>
    /\ pcSample = "idle"

LabelIdle ==
    /\ class_names = <<>>
    /\ lines = <<>>
    /\ lbl_pos = 0
    /\ analysis = <<>>
    /\ pcLabels = "idle"

PrepIdle ==
    /\ prep_train = <<>>
    /\ prep_test = <<>>
    /\ prep_pos = 0
    /\ processed_count = 0
    /\ failed_count = 0
    /\ pcPrep = "idle"

YamlIdle ==
    /\ dataset_config = <<>>
    /\ pcYaml = "idle"

OutIdle ==
    /\ out_files = <<>>
    /\ run_count = 0

LateIdle == LabelIdle /\ PrepIdle /\ YamlIdle /\ OutIdle

SliceIdle ==
    /\ group_len = 0
    /\ contributed = <<>>
    /\ pcSlice = "idle"

ValIdle ==
    /\ val_train = <<>>
    /\ val_test = <<>>
    /\ img_pos = 0
    /\ img_valid = 0
    /\ img_issues = <<>>
    /\ ann_pos = 0
    /\ ann_valid = 0
    /\ ann_issues = <<>>
    /\ pcVal = "idle"

CreateIdle ==
    /\ entry = "none"
    /\ test_size = 0
    /\ test_images = {}
    /\ test_files = <<>>
    /\ out_dirs = {}
    /\ train_copied = {}
    /\ test_copied = {}
    /\ pcCreate = "idle"

StatIdle ==
    /\ has_yaml = FALSE
    /\ has_classes_file = FALSE
    /\ output_given = FALSE
    /\ dataset_info = <<>>
    /\ report = <<>>
    /\ report_saved = FALSE
    /\ split_analysis = <<>>
    /\ class_dist = <<>>
    /\ balance_score = 0
    /\ overall_stats = <<>>
    /\ pcStats = "idle"

QualIdle ==
    /\ analysis_results = <<>>
    /\ metrics = <<>>
    /\ metric_todo = <<>>
    /\ pcQual = "idle"

ConvIdle ==
    /\ json_files = <<>>
    /\ scan_pos = 0
    /\ all_pill_codes = {}
    /\ valid_files = <<>>
    /\ sorted_codes = <<>>
    /\ code_to_id = <<>>
    /\ conv_queue = <<>>
    /\ labels = <<>>
    /\ converted_count = 0
    /\ pcConv = "idle"

GeomIdle ==
    /\ width = 1
    /\ height = 1
    /\ target_size = 1
    /\ bbox = <<0, 0, 0, 0>>
    /\ resize_params = <<>>
    /\ new_bbox = <<>>
    /\ ann_size = <<1, 1>>
    /\ pcGeom = "idle"

SplitIdle ==
    /\ image_files = {}
    /\ label_files = {}
    /\ train_ratio = 0
    /\ val_ratio = 0
    /\ test_ratio = 0
    /\ pairs = <<>>
    /\ pill_groups = <<>>
    /\ group_order = <<>>
    /\ train_pairs = <<>>
    /\ val_pairs = <<>>
    /\ test_pairs = <<>>
    /\ pcSplit = "idle"

InitSplit ==
    /\ image_files \in SUBSET SplitNames
    /\ label_files = image_files \ Unlabelled
    /\ train_ratio \in TrainRatios
    /\ val_ratio \in ValRatios
    /\ test_ratio \in TestRatios
    /\ pairs = <<>>
    /\ pill_groups = <<>>
    /\ group_order = <<>>
    /\ train_pairs = <<>>
    /\ val_pairs = <<>>
    /\ test_pairs = <<>>
    /\ pcSplit = "pairs"
    /\ SampleIdle
    /\ GeomIdle
    /\ ConvIdle
    /\ QualIdle
    /\ StatIdle
    /\ CreateIdle
    /\ ValIdle
    /\ SliceIdle
    /\ LateIdle

\* split_dataset_for_yolo line 26, then the grouping loop (lines 99-103).
GetPairsAndGroup ==
    /\ pcSplit = "pairs"
    /\ pairs' = GetImageLabelPairs(image_files, label_files)
    /\ pill_groups' = GroupBy(pairs')
    /\ group_order' = GroupOrder(pairs', {})
    /\ pcSplit' = "groups"
    /\ UNCHANGED <<image_files, label_files, train_ratio, val_ratio,
                   test_ratio, train_pairs, val_pairs, test_pairs>>
    /\ UNCHANGED notSplit

\* Mutant of GroupSlices: the test slice is int(n * test_ratio) long.
GroupSlicesByTestRatio(group_pairs, tr, vr, ter) ==
    LET n == Len(group_pairs)
        train_end == TrainEnd(n, tr)
        val_end == ValEnd(n, tr, vr)
    IN [train |-> Slice(group_pairs, 0, train_end),
        val |-> Slice(group_pairs, train_end, val_end),
        test |-> Slice(group_pairs, val_end, val_end + IntOfProduct(n, ter))]

\* Lines 108-114: the three slices of a shuffled group; test_ratio is a
\* parameter of _stratified_split that its body never reads.
GroupSlices(group_pairs, tr, vr, ter) ==
    LET n == Len(group_pairs)
        train_end == TrainEnd(n, tr)
        val_end == ValEnd(n, tr, vr)
    IN [train |-> Slice(group_pairs, 0, train_end),
        val |-> Slice(group_pairs, train_end, val_end),
        test |-> Slice(group_pairs, val_end, n)]

\* One iteration of the loop over pill_groups.items() (lines 105-114).
SplitGroup ==
    /\ pcSplit = "groups"
    /\ group_order # <<>>
    /\ LET code == Head(group_order)
           n == Len(pill_groups[code])
       IN \E p \in Perms(n) :
            LET group_pairs == Permute(pill_groups[code], p)
                slices == GroupSlices(group_pairs, train_ratio, val_ratio,
                                      test_ratio)
            IN /\ train_pairs' = train_pairs \o slices.train
               /\ val_pairs' = val_pairs \o slices.val
               /\ test_pairs' = test_pairs \o slices.test
               /\ pill_groups' = [pill_groups EXCEPT ![code] = group_pairs]
    /\ group_order' = Tail(group_order)
    /\ UNCHANGED <<image_files, label_files, train_ratio, val_ratio,
                   test_ratio, pairs, pcSplit>>
    /\ UNCHANGED notSplit

\* The three final shuffles and the return (lines 117-121).
ShuffleFinal ==
    /\ pcSplit = "groups"
    /\ group_order = <<>>
    /\ \E p \in Perms(Len(train_pairs)) : train_pairs' = Permute(train_pairs, p)
    /\ \E p \in Perms(Len(val_pairs)) : val_pairs' = Permute(val_pairs, p)
    /\ \E p \in Perms(Len(test_pairs)) : test_pairs' = Permute(test_pairs, p)
    /\ pcSplit' = "done"
    /\ UNCHANGED <<image_files, label_files, train_ratio, val_ratio,
                   test_ratio, pairs, pill_groups, group_order>>
    /\ UNCHANGED notSplit

NextSplit == GetPairsAndGroup \/ SplitGroup \/ ShuffleFinal

SpecSplit == InitSplit /\ [][NextSplit]_vars

\* C1: when _stratified_split has returned, train, val and test are
\* pairwise disjoint, their union is exactly the input pool, and their
\* lengths sum to the pool size (no pair lost, none duplicated), for every
\* pool and every train/val ratio >= 0 (ratios above 1 included).
SplitIsPartition ==
    pcSplit = "done" =>
        /\ Range(train_pairs) \cup Range(val_pairs) \cup Range(test_pairs)
              = Range(pairs)
        /\ Range(train_pairs) \cap Range(val_pairs) = {}
        /\ Range(train_pairs) \cap Range(test_pairs) = {}
        /\ Range(val_pairs) \cap Range(test_pairs) = {}
        /\ Len(train_pairs) + Len(val_pairs) + Len(test_pairs) = Len(pairs)

\* A finished split of several groups with all three parts non-empty.
SplitIsPartitionWitness ==
    /\ pcSplit = "done"
    /\ Cardinality(DOMAIN pill_groups) >= 2
    /\ train_pairs # <<>>
    /\ val_pairs # <<>>
    /\ test_pairs # <<>>

--------------------------------------------------------------------------
(* Sampler: pruning_dataset/modules/dataset_splitter.py *)

\* Largest train_size requested.
MaxTrainSize == 6

PN1 == <<"K", "-", "1", "-", "5", "_", "0">>
PN2 == <<"K", "-", "1", "-", "6", "_", "0">>
PN3 == <<"K", "-", "1", "-", "7", "_", "0">>
PN4 == <<"K", "-", "2", "-", "5", "_", "0">>
PN5 == <<"K", "-", "2", "-", "6", "_", "0">>
PN6 == <<"K", "-", "2", "-", "7", "_", "0">>
PN7 == <<"x", "_", "0">>
PN8 == <<"K", "-", "3", "-", "5", "_", "0">>

\* Images the source corpus may hold; PN8 has no annotation file.
SourceNames == {PN1, PN2, PN3, PN4, PN5, PN6, PN7, PN8}
NotAnnotated == {PN8}

Strategies == {"balanced", "quality", "random"}

\* os.path.getsize of each image (ties included).
FileSize(n) ==
    CASE n = PN1 -> 3 [] n = PN2 -> 1 [] n = PN3 -> 2 [] n = PN4 -> 3
      [] n = PN5 -> 2 [] n = PN6 -> 1 [] n = PN7 -> 2 [] OTHER -> 1

Unknown == <<"u", "n", "k", "n", "o", "w", "n">>

Max(a, b) == IF a >= b THEN a ELSE b
Min(a, b) == IF a <= b THEN a ELSE b

\* The sub-list of s at the positions in I, in list order.
AtPositions(s, I) ==
    LET F[k \in 0..Len(s)] ==
          IF k = 0 THEN <<>>
          ELSE IF k \in I THEN F[k - 1] \o <<s[k]>> ELSE F[k - 1]
    IN F[Len(s)]

\* random.sample(population, k): the k-subsets of the population. The set
\* is empty exactly when Python raises ValueError (k < 0 or k > len).
RandomSamples(population, k) ==
    {AtPositions(population, I) :
        I \in {J \in SUBSET (1..Len(population)) : Cardinality(J) = k}}

\* The valid-pair scan of _extract_train_pairs (lines 33-47).
ValidPairs(images) ==
    SelectSeq(SetToSeq(images), LAMBDA n : n \notin NotAnnotated)

\* pair['name'].split('-')[1], IndexError -> 'unknown' (lines 70-74).
PillCodeOfPair(name) ==
    LET parts == StrSplit(name, "-") IN
    IF Len(parts) >= 2 THEN parts[2] ELSE Unknown

RECURSIVE SampleGroupOrder(_, _)
SampleGroupOrder(ps, seen) ==
    IF ps = <<>> THEN <<>>
    ELSE IF PillCodeOfPair(Head(ps)) \in seen
         THEN SampleGroupOrder(Tail(ps), seen)
    ELSE <<PillCodeOfPair(Head(ps))>>
            \o SampleGroupOrder(Tail(ps), seen \cup {PillCodeOfPair(Head(ps))})

SampleGroups(ps) ==
    [c \in {PillCodeOfPair(ps[i]) : i \in 1..Len(ps)} |->
        SelectSeq(ps, LAMBDA p : PillCodeOfPair(p) = c)]

\* Mutant of SamplesPerGroup: the target is not divided among the groups.
SamplesPerGroupUndivided(target, ngroups) == Max(1, target)

\* samples_per_group = max(1, target // len(groups)), len(groups) > 0.
SamplesPerGroup(target, ngroups) == Max(1, target \div ngroups)

\* Mutant of Adjusted: the down-sampling branch is missing.
AdjustedNoDownSample(sel, ps, target) ==
    IF Len(sel) < target
    THEN LET remaining == SelectSeq(ps, LAMBDA p : p \notin Range(sel))
             additional_count == Min(target - Len(sel), Len(remaining))
         IN {sel \o a : a \in RandomSamples(remaining, additional_count)}
    ELSE {sel}

\* Mutant of Adjusted: the top-up draws from the whole pool.
AdjustedTopUpFromPool(sel, ps, target) ==
    IF Len(sel) < target
    THEN LET additional_count == Min(target - Len(sel), Len(ps))
         IN {sel \o a : a \in RandomSamples(ps, additional_count)}
    ELSE IF Len(sel) > target
    THEN RandomSamples(sel, target)
    ELSE {sel}

\* "Adjust to target size" (lines 85-90): the possible returned lists.
Adjusted(sel, ps, target) ==
    IF Len(sel) < target
    THEN LET remaining == SelectSeq(ps, LAMBDA p : p \notin Range(sel))
             additional_count == Min(target - Len(sel), Len(remaining))
         IN {sel \o a : a \in RandomSamples(remaining, additional_count)}
    ELSE IF Len(sel) > target
    THEN RandomSamples(sel, target)
    ELSE {sel}

\* Stable sort by file size, largest first (list.sort(reverse=True)).
RECURSIVE SortBySizeDesc(_)
SortBySizeDesc(s) ==
    IF s = <<>> THEN <<>>
    ELSE LET m == CHOOSE i \in 1..Len(s) :
                    /\ \A j \in 1..Len(s) : FileSize(s[j]) <= FileSize(s[i])
                    /\ \A j \in 1..(i - 1) : FileSize(s[j]) < FileSize(s[i])
         IN <<s[m]>> \o SortBySizeDesc(AtPositions(s, (1..Len(s)) \ {m}))

\* _quality_sample: pairs_with_size[:target] after the sort.
QualitySampleOf(ps, target) == Slice(SortBySizeDesc(ps), 0, target)

InitSample ==
    /\ source_images \in SUBSET SourceNames
    /\ strategy \in Strategies
    /\ train_size \in 0..MaxTrainSize
    /\ valid_pairs = <<>>
    /\ groups = <<>>
    /\ sample_order = <<>>
    /\ selected = <<>>
    /\ pcSample = "extract"
    /\ SplitIdle
    /\ GeomIdle
    /\ ConvIdle
    /\ QualIdle
    /\ StatIdle
    /\ CreateIdle
    /\ ValIdle
    /\ SliceIdle
    /\ LateIdle

\* _extract_train_pairs up to the strategy dispatch (lines 33-50).
ExtractTrainPairs ==
    /\ pcSample = "extract"
    /\ valid_pairs' = ValidPairs(source_images)
    /\ pcSample' = IF strategy = "balanced" THEN "balanced"
                   ELSE IF strategy = "quality" THEN "quality"
                   ELSE "random"
    /\ UNCHANGED <<source_images, strategy, train_size, groups,
                   sample_order, selected>>
    /\ UNCHANGED notSample

\* _balanced_sample lines 68-78: grouping, then samples_per_group, whose
\* division raises ZeroDivisionError when there is no group.
BalancedGroup ==
    /\ pcSample = "balanced"
    /\ groups' = SampleGroups(valid_pairs)
    /\ IF DOMAIN groups' = {}
       THEN /\ pcSample' = "error"
            /\ sample_order' = <<>>
       ELSE /\ pcSample' = "pick"
            /\ sample_order' = SampleGroupOrder(valid_pairs, {})
    /\ UNCHANGED <<source_images, strategy, train_size, valid_pairs, selected>>
    /\ UNCHANGED notSample

\* One iteration of the loop over groups.items() (lines 80-82).
BalancedPick ==
    /\ pcSample = "pick"
    /\ sample_order # <<>>
    /\ LET group_pairs == groups[Head(sample_order)]
           samples_per_group ==
               SamplesPerGroup(train_size, Cardinality(DOMAIN groups))
           sample_count == Min(samples_per_group, Len(group_pairs))
       IN \E smp \in RandomSamples(group_pairs, sample_count) :
            selected' = selected \o smp
    /\ sample_order' = Tail(sample_order)
    /\ UNCHANGED <<source_images, strategy, train_size, valid_pairs,
                   groups, pcSample>>
    /\ UNCHANGED notSample

\* Lines 85-92: top up or cut down, and return; random.sample raises
\* ValueError when asked for a negative number of items.
BalancedAdjust ==
    /\ pcSample = "pick"
    /\ sample_order = <<>>
    /\ IF Adjusted(selected, valid_pairs, train_size) = {}
       THEN /\ pcSample' = "error"
            /\ UNCHANGED selected
       ELSE /\ \E res \in Adjusted(selected, valid_pairs, train_size) :
                  selected' = res
            /\ pcSample' = "done"
    /\ UNCHANGED <<source_images, strategy, train_size, valid_pairs,
                   groups, sample_order>>
    /\ UNCHANGED notSample

\* Line 53.
QualitySample ==
    /\ pcSample = "quality"
    /\ selected' = QualitySampleOf(valid_pairs, train_size)
    /\ pcSample' = "done"
    /\ UNCHANGED <<source_images, strategy, train_size, valid_pairs,
                   groups, sample_order>>
    /\ UNCHANGED notSample

\* Line 55: random.sample(valid_pairs, min(train_size, len(valid_pairs))),
\* a ValueError when train_size is negative.
RandomSample ==
    /\ pcSample = "random"
    /\ LET k == Min(train_size, Len(valid_pairs))
       IN IF RandomSamples(valid_pairs, k) = {}
          THEN /\ pcSample' = "error"
               /\ UNCHANGED selected
          ELSE /\ \E smp \in RandomSamples(valid_pairs, k) : selected' = smp
               /\ pcSample' = "done"
    /\ UNCHANGED <<source_images, strategy, train_size, valid_pairs,
                   groups, sample_order>>
    /\ UNCHANGED notSample

NextSample ==
    \/ ExtractTrainPairs
    \/ BalancedGroup
    \/ BalancedPick
    \/ BalancedAdjust
    \/ QualitySample
    \/ RandomSample

SpecSample == InitSample /\ [][NextSample]_vars

\* C2: a sample returned by the train-pair selection never has more than
\* train_size items, whatever the strategy, pool and train_size >= 0; the
\* balanced strategy on 7 pairs in 3 pill-code groups with train_size 5
\* returns exactly 5.
SampleWithinTarget ==
    pcSample = "done" =>
        /\ Len(selected) <= train_size
        /\ (/\ strategy = "balanced"
            /\ Len(valid_pairs) = 7
            /\ Cardinality(DOMAIN groups) = 3
            /\ train_size = 5) => Len(selected) = 5

\* The balanced strategy has returned for 7 pairs, 3 groups, target 5.
SampleWithinTargetWitness ==
    /\ pcSample = "done"
    /\ strategy = "balanced"
    /\ Len(valid_pairs) = 7
    /\ Cardinality(DOMAIN groups) = 3
    /\ train_size = 5
    /\ Len(selected) = 5

\* C3: with fewer pairs than requested (the empty pool included) every
\* strategy returns normally, with a subset of the pool, and never ends in
\* an error.
UnderSupplyReturns ==
    (Len(valid_pairs) < train_size /\ pcSample \in {"done", "error"}) =>
        /\ pcSample = "done"
        /\ Range(selected) \subseteq Range(valid_pairs)

--------------------------------------------------------------------------
(* Geometry: data_preprocess/modules/preprocessing.py *)

\* Largest image side and largest target size tried.
MaxDim == 6
MaxTargetSize == 7

\* Python floats are binary floating point with round-to-nearest-even; the
\* significand is MantissaBits wide here (53 in CPython), which keeps every
\* intermediate product inside the integers TLC can hold.
MantissaBits == 11

RECURSIVE Pow2(_)
Pow2(k) == IF k = 0 THEN 1 ELSE 2 * Pow2(k - 1)

\* Number of binary digits of n >= 0.
RECURSIVE BitLen(_)
BitLen(n) == IF n = 0 THEN 0 ELSE 1 + BitLen(n \div 2)

\* A float m * 2^e: m = 0, or m has exactly MantissaBits binary digits.
Flt(m, e) == [m |-> m, e |-> e]

\* The float nearest to n * 2^e (n >= 0), ties to the even significand.
FltRound(n, e) ==
    LET len == BitLen(n)
    IN IF n = 0 THEN Flt(0, 0)
       ELSE IF len <= MantissaBits
            THEN Flt(n * Pow2(MantissaBits - len), e - (MantissaBits - len))
            ELSE LET k == len - MantissaBits
                     q == n \div Pow2(k)
                     r == n % Pow2(k)
                     half == Pow2(k - 1)
                     up == r > half \/ (r = half /\ q % 2 = 1)
                     m == IF up THEN q + 1 ELSE q
                 IN IF m = Pow2(MantissaBits)
                    THEN Flt(Pow2(MantissaBits - 1), e + k + 1)
                    ELSE Flt(m, e + k)

\* a / b for integers a >= 0, b > 0: the quotient is taken with two digits
\* more than the significand and a sticky digit, then rounded once.
FltDiv(a, b) ==
    LET s == MantissaBits + 2 + BitLen(b)
        q == (a * Pow2(s)) \div b
        sticky == IF (a * Pow2(s)) % b = 0 THEN 0 ELSE 1
    IN FltRound(2 * q + sticky, 0 - (s + 1))

\* v * f for an integer v >= 0 and a float f.
FltMulInt(v, f) == FltRound(v * f.m, f.e)

\* f + v for a float f with f.e <= 0 and an integer v >= 0.
FltAddInt(f, v) == FltRound(f.m + v * Pow2(0 - f.e), f.e)

\* a <= b for floats that are both positive.
FltLE(a, b) == a.e < b.e \/ (a.e = b.e /\ a.m <= b.m)
FltMin(a, b) == IF FltLE(a, b) THEN a ELSE b
FltMax(a, b) == IF FltLE(a, b) THEN b ELSE a

\* int(f) for a float f >= 0.
FltToInt(f) == IF f.e >= 0 THEN f.m * Pow2(f.e) ELSE f.m \div Pow2(0 - f.e)

\* Mutant of CalculateResizeParams: scale = max(...) instead of min(...).
CalculateResizeParamsMax(w, h, t) ==
    LET scale == FltMax(FltDiv(t, w), FltDiv(t, h))
        new_width == FltToInt(FltMulInt(w, scale))
        new_height == FltToInt(FltMulInt(h, scale))
    IN [scale |-> scale,
        new_size |-> <<new_width, new_height>>,
        padding |-> <<(t - new_width) \div 2, (t - new_height) \div 2>>,
        target_size |-> t]

\* calculate_resize_params(width, height, target_size).
CalculateResizeParams(w, h, t) ==
    LET scale == FltMin(FltDiv(t, w), FltDiv(t, h))
        new_width == FltToInt(FltMulInt(w, scale))
        new_height == FltToInt(FltMulInt(h, scale))
    IN [scale |-> scale,
        new_size |-> <<new_width, new_height>>,
        padding |-> <<(t - new_width) \div 2, (t - new_height) \div 2>>,
        target_size |-> t]

\* The bbox update of update_annotation_coords (lines 64-77).
RemapBox(b, params) ==
    LET scale == params.scale
        pad_left == params.padding[1]
        pad_top == params.padding[2]
    IN <<FltAddInt(FltMulInt(b[1], scale), pad_left),
         FltAddInt(FltMulInt(b[2], scale), pad_top),
         FltMulInt(b[3], scale),
         FltMulInt(b[4], scale)>>

\* The boxes lying fully inside a w x h image.
BoxesInside(w, h) ==
    {b \in (0..w) \X (0..h) \X (0..w) \X (0..h) :
        b[1] + b[3] <= w /\ b[2] + b[4] <= h}

InitGeom ==
    /\ width \in 1..MaxDim
    /\ height \in 1..MaxDim
    /\ target_size \in 1..MaxTargetSize
    /\ bbox \in BoxesInside(width, height)
    /\ resize_params = <<>>
    /\ new_bbox = <<>>
    /\ ann_size = <<width, height>>
    /\ pcGeom = "image"
    /\ SplitIdle
    /\ SampleIdle
    /\ ConvIdle
    /\ QualIdle
    /\ StatIdle
    /\ CreateIdle
    /\ ValIdle
    /\ SliceIdle
    /\ LateIdle

\* process_image -> resize_image -> calculate_resize_params (lines 41-53).
ProcessImage ==
    /\ pcGeom = "image"
    /\ resize_params' = CalculateResizeParams(width, height, target_size)
    /\ pcGeom' = "annotation"
    /\ UNCHANGED <<width, height, target_size, bbox, new_bbox, ann_size>>
    /\ UNCHANGED notGeom

\* update_annotation_coords (lines 58-89).
UpdateAnnotationCoords ==
    /\ pcGeom = "annotation"
    /\ new_bbox' = RemapBox(bbox, resize_params)
    /\ ann_size' = <<resize_params.target_size, resize_params.target_size>>
    /\ pcGeom' = "done"
    /\ UNCHANGED <<width, height, target_size, bbox, resize_params>>
    /\ UNCHANGED notGeom

NextGeom == ProcessImage \/ UpdateAnnotationCoords

SpecGeom == InitGeom /\ [][NextGeom]_vars

\* C4: for width, height, target_size > 0 the computed new_width and
\* new_height are at most target_size, and the padding is symmetric within
\* one pixel: 0 <= (target_size - new_width) - 2*pad_left <= 1, and the
\* same for new_height and pad_top.
ResizeFitsAndCentres ==
    pcGeom \in {"annotation", "done"} =>
        LET nw == resize_params.new_size[1]
            nh == resize_params.new_size[2]
            pl == resize_params.padding[1]
            pt == resize_params.padding[2]
        IN /\ nw <= target_size
           /\ nh <= target_size
           /\ (target_size - nw) - 2 * pl \in {0, 1}
           /\ (target_size - nh) - 2 * pt \in {0, 1}

\* Parameters computed for a non-square image whose short side leaves an
\* odd number of padding pixels.
ResizeFitsAndCentresWitness ==
    /\ pcGeom = "annotation"
    /\ width > height
    /\ resize_params.new_size[1] = target_size
    /\ (target_size - resize_params.new_size[2])
         - 2 * resize_params.padding[2] = 1

\* The real number a + b of two floats is at most the integer t.
FltSumLE(a, b, t) ==
    LET lo == IF a.e < b.e THEN a.e ELSE b.e
    IN IF lo > 0 THEN a.m * Pow2(a.e) + b.m * Pow2(b.e) <= t
       ELSE a.m * Pow2(a.e - lo) + b.m * Pow2(b.e - lo) <= t * Pow2(0 - lo)

\* C5: a box inside the original image (0 <= x, 0 <= y, x+w <= W,
\* y+h <= H), remapped with the parameters computed from (W, H, T), has
\* x' >= 0, y' >= 0, x'+w' <= T and y'+h' <= T.
RemappedBoxInsideCanvas ==
    pcGeom = "done" =>
        /\ new_bbox[1].m >= 0
        /\ new_bbox[2].m >= 0
        /\ FltSumLE(new_bbox[1], new_bbox[3], target_size)
        /\ FltSumLE(new_bbox[2], new_bbox[4], target_size)

--------------------------------------------------------------------------
(* Converter: data_preprocess/modules/annotation_converter.py *)

\* Most annotation files in one corpus (structure runs).
MaxFiles == 3
\* Largest image side and box coordinate (label-line runs).
MaxImgSide == 3
MaxCoord == 3

\* '.6f': a decimal with six fractional digits, held in millionths.
Million == 1000000

\* Code-point order of the tokens file names are made of.
TokenOrder ==
    <<"-", ".jpg", ".json", ".png", "0", "1", "2", "5", "6", "7",
      "K", "_", "a", "b", "c", "x">>

Ord(t) == CHOOSE i \in 1..Len(TokenOrder) : TokenOrder[i] = t

\* str < str.
RECURSIVE LexLess(_, _)
LexLess(a, b) ==
    IF b = <<>> THEN FALSE
    ELSE IF a = <<>> THEN TRUE
    ELSE IF Ord(Head(a)) # Ord(Head(b)) THEN Ord(Head(a)) < Ord(Head(b))
    ELSE LexLess(Tail(a), Tail(b))

\* Insert x into the ascending list s.
RECURSIVE InsertSorted(_, _)
InsertSorted(x, s) ==
    IF s = <<>> THEN <<x>>
    ELSE IF LexLess(x, Head(s)) THEN <<x>> \o s
    ELSE <<Head(s)>> \o InsertSorted(x, Tail(s))

RECURSIVE InsertionSort(_)
InsertionSort(s) ==
    IF s = <<>> THEN <<>> ELSE InsertSorted(Head(s), InsertionSort(Tail(s)))

\* Mutant of SortedCodes: the list of the set is used as it comes.
SortedCodesUnsorted(code_list) == code_list

\* sorted(list(all_pill_codes)), given the list of the set.
SortedCodes(code_list) == InsertionSort(code_list)

\* The orders list(a_set) may come in.
ListsOf(S) ==
    {q \in [1..Cardinality(S) -> S] :
        \A i, j \in 1..Cardinality(S) : q[i] = q[j] => i = j}

\* {code: i for i, code in enumerate(sorted_codes)}, ids from 0.
EnumerateCodes(codes) ==
    [c \in Range(codes) |->
        (CHOOSE i \in 1..Len(codes) :
            codes[i] = c /\ \A j \in (i + 1)..Len(codes) : codes[j] # c) - 1]

\* extract_pill_code(filename) (lines 232-235).
ExtractPillCode(filename) ==
    LET name == StrRemove(StrRemove(filename, ".png"), ".json") IN
    IF FirstIndex(name, "_", 1) # 0 THEN StrSplit(name, "_")[1] ELSE name

\* filename.replace('.png', '').replace('.jpg', '') (line 297).
BaseName(filename) == StrRemove(StrRemove(filename, ".png"), ".jpg")

\* round-half-even of n/d (d > 0) to an integer.
RoundHalfEven(n, d) ==
    LET q == n \div d
        r == n - q * d
    IN IF 2 * r > d THEN q + 1
       ELSE IF 2 * r < d THEN q
       ELSE IF q % 2 = 0 THEN q ELSE q + 1

\* f"{n/d:.6f}", in millionths.
Fmt6(n, d) == RoundHalfEven(n * Million, d)

\* Mutant of LabelLine: the corner is written instead of the centre.
LabelLineCorner(class_id, b, img_width, img_height) ==
    <<class_id,
      Fmt6(b[1], img_width),
      Fmt6(b[2], img_height),
      Fmt6(b[3], img_width),
      Fmt6(b[4], img_height)>>

\* Lines 306-314: one label line, b = [x, y, w, h].
LabelLine(class_id, b, img_width, img_height) ==
    <<class_id,
      Fmt6(2 * b[1] + b[3], 2 * img_width),
      Fmt6(2 * b[2] + b[4], 2 * img_height),
      Fmt6(b[3], img_width),
      Fmt6(b[4], img_height)>>

\* code_to_id.get(pill_code, 0).
ClassIdOf(mapping, pill_code) ==
    IF pill_code \in DOMAIN mapping THEN mapping[pill_code] ELSE 0

\* Mutant of ImageAnnotations: every annotation of the file, whatever its
\* image_id.
ImageAnnotationsOfFile(coco_data, img_info) == coco_data.annotations

\* Line 293: the annotations of one image, in file order.
ImageAnnotations(coco_data, img_info) ==
    SelectSeq(coco_data.annotations, LAMBDA ann : ann.image_id = img_info.id)

LinesOf(mapping, coco_data, img_info) ==
    LET anns == ImageAnnotations(coco_data, img_info)
        class_id == ClassIdOf(mapping, ExtractPillCode(img_info.file_name))
    IN [k \in 1..Len(anns) |->
            LabelLine(class_id, anns[k].bbox, img_info.width, img_info.height)]

\* Mutant of LabelsAfter: a label file is written for every image record.
LabelsAfterAlways(files, mapping, coco_data, img_info) ==
    (BaseName(img_info.file_name) :> LinesOf(mapping, coco_data, img_info))
        @@ files

\* Lines 295-314: the label files after one image record is handled
\* (open(yolo_file, 'w') replaces an existing file).
LabelsAfter(files, mapping, coco_data, img_info) ==
    IF ImageAnnotations(coco_data, img_info) # <<>>
    THEN (BaseName(img_info.file_name) :> LinesOf(mapping, coco_data, img_info))
            @@ files
    ELSE files

Img(id, fn, w, h) == [id |-> id, file_name |-> fn, width |-> w, height |-> h]
Ann(image_id, b) == [image_id |-> image_id, bbox |-> b]
OkFile(imgs, anns) == [kind |-> "ok", images |-> imgs, annotations |-> anns]
\* A file json.load rejects, and one without the 'images'/'annotations' keys.
UnreadableFile == [kind |-> "unreadable", images |-> <<>>, annotations |-> <<>>]
NoKeysFile == [kind |-> "nokeys", images |-> <<>>, annotations |-> <<>>]

CNb1 == <<"b", "_", "1", ".png">>
CNa1 == <<"a", "_", "1", ".png">>
CNab == <<"a", "b", "_", "0", ".png">>
CNc  == <<"c", ".png">>
CNx  == <<"_", "x", ".png">>
CNk  == <<"K", "-", "1", "-", "5", "_", "0", ".png">>

\* The annotation files a structure run draws its corpus from.
ConvFiles ==
    { OkFile(<<Img(1, CNb1, 4, 2)>>, <<Ann(1, <<1, 0, 2, 1>>)>>),
      OkFile(<<Img(1, CNa1, 4, 2)>>,
             <<Ann(1, <<0, 0, 4, 2>>), Ann(2, <<1, 1, 1, 1>>),
               Ann(1, <<1, 0, 2, 2>>)>>),
      OkFile(<<Img(1, CNa1, 4, 2)>>, <<>>),
      OkFile(<<Img(1, CNc, 4, 2), Img(2, CNx, 4, 2)>>,
             <<Ann(2, <<0, 0, 2, 2>>)>>),
      OkFile(<<Img(1, CNb1, 2, 2)>>, <<Ann(1, <<0, 0, 1, 1>>)>>),
      OkFile(<<Img(1, CNab, 4, 2)>>, <<Ann(1, <<2, 1, 2, 1>>)>>),
      OkFile(<<Img(1, CNk, 4, 2)>>, <<Ann(2, <<0, 0, 1, 1>>)>>),
      UnreadableFile,
      NoKeysFile }

\* The corpora of at most n distinct files, in every glob order.
Corpora(files, n) ==
    UNION {{q \in [1..k -> files] : \A i, j \in 1..k : q[i] = q[j] => i = j}
            : k \in 0..n}

\* The corpus of a label-line run: at most one file, one image of any
\* size, one box with any coordinates (boxes outside the image included),
\* and the 1000 x 1000 image of the documented example.
LabelCorpora ==
    {<<>>}
    \cup {<<OkFile(<<Img(1, CNb1, w, h)>>, <<Ann(1, b)>>)>> :
            w \in 1..MaxImgSide, h \in 1..MaxImgSide,
            b \in (0..MaxCoord) \X (0..MaxCoord) \X (0..MaxCoord) \X (0..MaxCoord)}
    \cup {<<OkFile(<<Img(1, CNb1, 1000, 1000)>>, <<Ann(1, b)>>)>> :
            b \in {<<100, 200, 50, 80>>, <<900, 0, 300, 100>>}}

ConvStart(corpus) ==
    /\ json_files = corpus
    /\ scan_pos = 0
    /\ all_pill_codes = {}
    /\ valid_files = <<>>
    /\ sorted_codes = <<>>
    /\ code_to_id = <<>>
    /\ conv_queue = <<>>
    /\ labels = <<>>
    /\ converted_count = 0
    /\ pcConv = "start"
    /\ SplitIdle
    /\ SampleIdle
    /\ GeomIdle
    /\ QualIdle
    /\ StatIdle
    /\ CreateIdle
    /\ ValIdle
    /\ SliceIdle
    /\ LateIdle

InitConvert == \E corpus \in Corpora(ConvFiles, MaxFiles) : ConvStart(corpus)

InitLabel == \E corpus \in LabelCorpora : ConvStart(corpus)

\* Lines 241-249: with no annotation file the function returns None.
StartConvert ==
    /\ pcConv = "start"
    /\ pcConv' = IF json_files = <<>> THEN "none" ELSE "scan"
    /\ UNCHANGED <<json_files, scan_pos, all_pill_codes, valid_files,
                   sorted_codes, code_to_id, conv_queue, labels,
                   converted_count>>
    /\ UNCHANGED notConv

\* One iteration of the collection loop (lines 255-266).
ScanFile ==
    /\ pcConv = "scan"
    /\ scan_pos < Len(json_files)
    /\ LET data == json_files[scan_pos + 1] IN
         IF data.kind = "ok"
         THEN /\ all_pill_codes' = all_pill_codes \cup
                    {ExtractPillCode(data.images[i].file_name) :
                        i \in 1..Len(data.images)}
              /\ valid_files' = Append(valid_files, data)
         ELSE UNCHANGED <<all_pill_codes, valid_files>>
    /\ scan_pos' = scan_pos + 1
    /\ UNCHANGED <<json_files, sorted_codes, code_to_id, conv_queue,
                   labels, converted_count, pcConv>>
    /\ UNCHANGED notConv

\* The images of the valid files, in conversion order.
ConvQueue(files) ==
    LET F[k \in 0..Len(files)] ==
          IF k = 0 THEN <<>>
          ELSE F[k - 1] \o [i \in 1..Len(files[k].images) |-> <<k, i>>]
    IN F[Len(files)]

\* Lines 268-281: the class mapping and classes.txt.
BuildMapping ==
    /\ pcConv = "scan"
    /\ scan_pos = Len(json_files)
    /\ \E code_list \in ListsOf(all_pill_codes) :
            sorted_codes' = SortedCodes(code_list)
    /\ code_to_id' = EnumerateCodes(sorted_codes')
    /\ conv_queue' = ConvQueue(valid_files)
    /\ pcConv' = "convert"
    /\ UNCHANGED <<json_files, scan_pos, all_pill_codes, valid_files,
                   labels, converted_count>>
    /\ UNCHANGED notConv

\* One image record of the conversion loop (lines 286-316).
ConvertImage ==
    /\ pcConv = "convert"
    /\ conv_queue # <<>>
    /\ LET coco_data == valid_files[Head(conv_queue)[1]]
           img_info == coco_data.images[Head(conv_queue)[2]]
       IN /\ labels' = LabelsAfter(labels, code_to_id, coco_data, img_info)
          /\ converted_count' =
                IF ImageAnnotations(coco_data, img_info) # <<>>
                THEN converted_count + 1 ELSE converted_count
    /\ conv_queue' = Tail(conv_queue)
    /\ UNCHANGED <<json_files, scan_pos, all_pill_codes, valid_files,
                   sorted_codes, code_to_id, pcConv>>
    /\ UNCHANGED notConv

\* Lines 318-326: the result is returned.
FinishConvert ==
    /\ pcConv = "convert"
    /\ conv_queue = <<>>
    /\ pcConv' = "done"
    /\ UNCHANGED <<json_files, scan_pos, all_pill_codes, valid_files,
                   sorted_codes, code_to_id, conv_queue, labels,
                   converted_count>>
    /\ UNCHANGED notConv

NextConvert ==
    \/ StartConvert
    \/ ScanFile
    \/ BuildMapping
    \/ ConvertImage
    \/ FinishConvert

SpecConvert == InitConvert /\ [][NextConvert]_vars

SpecLabel == InitLabel /\ [][NextConvert]_vars

\* The image records of the files the collection loop keeps, as
\* <<file, image>> positions in json_files.
KeptRecords ==
    UNION {{<<f, i>> : i \in 1..Len(json_files[f].images)} :
            f \in {g \in 1..Len(json_files) : json_files[g].kind = "ok"}}

RecordImage(r) == json_files[r[1]].images[r[2]]

\* The distinct class keys of the corpus.
CorpusKeys == {ExtractPillCode(RecordImage(r).file_name) : r \in KeptRecords}

\* C6: the class vocabulary maps the N distinct class keys of the corpus
\* one-to-one onto 0..N-1 in ascending lexical order, and is determined by
\* the set of keys alone (the id of a key is the number of smaller keys),
\* whatever the order the files and the set are traversed in; classes.txt
\* lists the keys in id order.
VocabularySortedDense ==
    pcConv \in {"convert", "done"} =>
        /\ DOMAIN code_to_id = CorpusKeys
        /\ \A k \in CorpusKeys :
              /\ code_to_id[k] = Cardinality({j \in CorpusKeys : LexLess(j, k)})
              /\ sorted_codes[code_to_id[k] + 1] = k
        /\ Len(sorted_codes) = Cardinality(CorpusKeys)

\* A finished run over three files with three distinct keys, met in
\* descending order by the collection loop.
VocabularySortedDenseWitness ==
    /\ pcConv = "done"
    /\ Cardinality(CorpusKeys) >= 3
    /\ Len(json_files) = 3
    /\ \A f \in 1..3 : json_files[f].kind = "ok"
    /\ LexLess(ExtractPillCode(json_files[3].images[1].file_name),
               ExtractPillCode(json_files[2].images[1].file_name))
    /\ LexLess(ExtractPillCode(json_files[2].images[1].file_name),
               ExtractPillCode(json_files[1].images[1].file_name))

Abs(i) == IF i < 0 THEN -i ELSE i

\* v millionths is n/d rounded to six decimal digits.
IsSixDigitsOf(v, n, d) == 2 * Abs(v * d - n * Million) <= d

\* C7: the label line of a box [x, y, w, h] of a W x H image carries
\* (x + w/2)/W, (y + h/2)/H, w/W and h/H at six decimal digits; for the
\* 1000 x 1000 image and box [100, 200, 50, 80] it is
\* "<id> 0.125000 0.240000 0.050000 0.080000".
LabelLineFormula ==
    (pcConv = "done" /\ json_files # <<>>) =>
        LET img == json_files[1].images[1]
            b == json_files[1].annotations[1].bbox
            base == BaseName(img.file_name)
        IN /\ base \in DOMAIN labels
           /\ Len(labels[base]) = 1
           /\ LET line == labels[base][1] IN
                /\ IsSixDigitsOf(line[2], 2 * b[1] + b[3], 2 * img.width)
                /\ IsSixDigitsOf(line[3], 2 * b[2] + b[4], 2 * img.height)
                /\ IsSixDigitsOf(line[4], b[3], img.width)
                /\ IsSixDigitsOf(line[5], b[4], img.height)
                /\ (/\ img.width = 1000
                    /\ img.height = 1000
                    /\ b = <<100, 200, 50, 80>>)
                   => line = <<code_to_id[<<"b">>], 125000, 240000, 50000, 80000>>

\* The documented example has been converted.
LabelLineFormulaWitness ==
    /\ pcConv = "done"
    /\ json_files # <<>>
    /\ json_files[1].images[1].width = 1000
    /\ json_files[1].annotations[1].bbox = <<100, 200, 50, 80>>
    /\ labels[<<"b", "_", "1">>] = <<<<0, 125000, 240000, 50000, 80000>>>>

\* C8: every label line written has a non-negative class id and center_x,
\* center_y, width and height in [0, 1].
LabelValuesNormalised ==
    \A base \in DOMAIN labels :
        \A k \in 1..Len(labels[base]) :
            /\ labels[base][k][1] >= 0
            /\ \A c \in 2..5 :
                  labels[base][k][c] >= 0 /\ labels[base][k][c] <= Million

\* Whether some kept record named like base has at least one box.
HasBoxes(base) ==
    \E r \in KeptRecords :
        /\ BaseName(RecordImage(r).file_name) = base
        /\ ImageAnnotations(json_files[r[1]], RecordImage(r)) # <<>>

\* The kept image records without any box.
ZeroBoxRecords ==
    {r \in KeptRecords :
        ImageAnnotations(json_files[r[1]], RecordImage(r)) = <<>>}

\* The images of train_images/, one per kept record.
TrainImageNames == {BaseName(RecordImage(r).file_name) : r \in KeptRecords}

\* The names _get_image_label_pairs returns for the converted output.
PairedNames ==
    LET ps == GetImageLabelPairs(TrainImageNames, DOMAIN labels)
    IN {ps[i].name : i \in 1..Len(ps)}

--------------------------------------------------------------------------
(* Quality metrics: data_preprocess/modules/data_analyzer.py *)

\* Largest image/label count of the train split, and of val and test.
MaxCount == 10
MaxSmallCount == 1

\* round(x, 3): a value with three decimal digits, held in thousandths.
Thousand == 1000
\* "reasonable split sizes": total_images > 100 (line 216).
SplitSizeTarget == 100

Splits == <<"train", "val", "test">>

\* Mutant of Consistency: image_count / label_count.
ConsistencySwapped(image_count, label_count) ==
    IF label_count > 0
    THEN RoundHalfEven(image_count * Thousand, label_count)
    ELSE 0

\* Lines 206-209: round(label_count / image_count, 3), 0 without images.
Consistency(image_count, label_count) ==
    IF image_count > 0
    THEN RoundHalfEven(label_count * Thousand, image_count)
    ELSE 0

\* The values round(n/d, 3) may give: the nearest thousandth, or either
\* neighbour when n/d lies exactly between two (the float that stands for
\* n/d then decides).
Round3(n, d) ==
    LET q == (n * Thousand) \div d
        r == n * Thousand - q * d
    IN IF 2 * r > d THEN {q + 1}
       ELSE IF 2 * r < d THEN {q}
       ELSE {q, q + 1}

RECURSIVE SumOver(_, _)
SumOver(f, keys) ==
    IF keys = <<>> THEN 0 ELSE f[Head(keys)] + SumOver(f, Tail(keys))

\* The rational num/den with den > 0.
Rat(n, d) == [num |-> n, den |-> d]

\* Lines 212-219: overall_quality = (avg_consistency + split_quality) / 2
\* as the rational num/den, from the consistencies in thousandths.
OverallQuality(consistencies, total_images) ==
    LET sum == SumOver(consistencies, Splits)
        split_quality_pct ==
            IF total_images > SplitSizeTarget THEN SplitSizeTarget
            ELSE total_images
    IN Rat(sum * SplitSizeTarget + split_quality_pct * Len(Splits) * Thousand,
           2 * Len(Splits) * Thousand * SplitSizeTarget)

Counts(i, l) == [image_count |-> i, label_count |-> l]

InitQuality ==
    /\ \E ti, tl \in 0..MaxCount :
       \E vi, vl, si, sl \in 0..MaxSmallCount :
          analysis_results =
              [s \in Range(Splits) |->
                  IF s = "train" THEN Counts(ti, tl)
                  ELSE IF s = "val" THEN Counts(vi, vl)
                  ELSE Counts(si, sl)]
    /\ metrics = <<>>
    /\ metric_todo = Splits
    /\ pcQual = "consistency"
    /\ SplitIdle
    /\ SampleIdle
    /\ GeomIdle
    /\ ConvIdle
    /\ StatIdle
    /\ CreateIdle
    /\ ValIdle
    /\ SliceIdle
    /\ LateIdle

\* One iteration of the consistency loop (lines 205-209).
SplitConsistency ==
    /\ pcQual = "consistency"
    /\ metric_todo # <<>>
    /\ LET split == Head(metric_todo)
           result == analysis_results[split]
       IN metrics' = (split :> Consistency(result.image_count,
                                           result.label_count)) @@ metrics
    /\ metric_todo' = Tail(metric_todo)
    /\ UNCHANGED <<analysis_results, pcQual>>
    /\ UNCHANGED notQual

\* Lines 211-221: the overall quality score, and the return.
OverallQualityScore ==
    /\ pcQual = "consistency"
    /\ metric_todo = <<>>
    /\ LET total_images ==
              SumOver([s \in Range(Splits) |-> analysis_results[s].image_count],
                      Splits)
           overall_quality == OverallQuality(metrics, total_images)
       IN \E score \in Round3(overall_quality.num, overall_quality.den) :
            metrics' = ("overall_quality_score" :> score) @@ metrics
    /\ pcQual' = "done"
    /\ UNCHANGED <<analysis_results, metric_todo>>
    /\ UNCHANGED notQual

NextQuality == SplitConsistency \/ OverallQualityScore

SpecQuality == InitQuality /\ [][NextQuality]_vars

\* C10 as claimed: each split's consistency equals label_count /
\* image_count when image_count > 0 and 0 when image_count = 0.
ConsistencyIsExactRatio ==
    pcQual = "done" =>
        \A s \in Range(Splits) :
            LET r == analysis_results[s] IN
            IF r.image_count > 0
            THEN metrics[s] * r.image_count = r.label_count * Thousand
            ELSE metrics[s] = 0

\* C10 as amended: each split's consistency equals label_count /
\* image_count rounded to three decimal places when image_count > 0
\* (10 images and 8 labels give 0.8) and 0 when image_count = 0, with no
\* division error.
ConsistencyIsRoundedRatio ==
    pcQual = "done" =>
        \A s \in Range(Splits) :
            LET r == analysis_results[s] IN
            /\ s \in DOMAIN metrics
            /\ IF r.image_count > 0
               THEN 2 * Abs(metrics[s] * r.image_count
                            - r.label_count * Thousand) <= r.image_count
               ELSE metrics[s] = 0
            /\ (r.image_count = 10 /\ r.label_count = 8) => metrics[s] = 800

\* Metrics returned for 10 train images with 8 labels and an empty split
\* that still holds a label file.
ConsistencyIsRoundedRatioWitness ==
    /\ pcQual = "done"
    /\ analysis_results["train"] = Counts(10, 8)
    /\ metrics["train"] = 800
    /\ analysis_results["val"] = Counts(0, 1)
    /\ metrics["val"] = 0

--------------------------------------------------------------------------
(* Overall statistics: data_preprocess/modules/data_analyzer.py *)

\* Largest count of one class in a histogram handed to the balance score.
MaxClassCount == 4
\* Most images in one split, and the largest per-class count in one
\* split's class_distribution (overall statistics runs).
MaxSplitImages == 1
MaxSplitClassCount == 2

ClassNames == <<"a", "b", "c">>

\* Class histograms: class name -> positive count (a defaultdict(int)
\* only holds the keys that were incremented).
HistogramsOver(names, max_count) ==
    UNION {[D -> 1..max_count] : D \in SUBSET names}

\* sum(len(values)), sum of the values and of their squares.
RECURSIVE SumValues(_, _)
SumValues(f, S) ==
    IF S = {} THEN 0
    ELSE LET x == CHOOSE y \in S : TRUE IN f[x] + SumValues(f, S \ {x})

SumSquares(f) == SumValues([x \in DOMAIN f |-> f[x] * f[x]], DOMAIN f)

\* x / y as Python evaluates it: the rational x/y, and the exception
\* ZeroDivisionError (held as a value with denominator 0) when y = 0.
ZeroDivisionError == [num |-> 0, den |-> 0]
TrueDiv(x, y) == IF y = 0 THEN ZeroDivisionError ELSE Rat(x, y)

\* round(1 / (1 + cv), 3) in thousandths, for cv = std / mean of counts
\* with n values, sum s and n * (sum of squares) - s^2 = a (so that
\* cv^2 = a / s^2): the rounded score is at least k/1000 exactly when
\* (2k - 1) * cv <= 2 * 1000 + 1 - 2k.
ScoreAtLeast(k, a, s) ==
    LET lhs == 2 * k - 1
        rhs == (2 * Thousand + 1 - 2 * k) * s
    IN a * lhs * lhs <= rhs * rhs

RECURSIVE LargestScore(_, _, _, _)
LargestScore(lo, hi, a, s) ==
    IF lo = hi THEN lo
    ELSE LET mid == (lo + hi + 1) \div 2
         IN IF ScoreAtLeast(mid, a, s)
            THEN LargestScore(mid, hi, a, s)
            ELSE LargestScore(lo, mid - 1, a, s)

RoundedScore(a, s) ==
    LET k == LargestScore(0, Thousand, a, s)
        lhs == 2 * k - 1
        rhs == (2 * Thousand + 1 - 2 * k) * s
    IN IF k > 0 /\ a * lhs * lhs = rhs * rhs /\ k % 2 = 1 THEN k - 1 ELSE k

\* Mutant of CalculateClassBalanceScore: 1 / (1 + cv) written as 1 + cv.
CalculateClassBalanceScoreInverted(dist) ==
    IF DOMAIN dist = {} THEN 0
    ELSE LET n == Cardinality(DOMAIN dist)
             s == SumValues(dist, DOMAIN dist)
             a == n * SumSquares(dist) - s * s
         IN IF s > 0 THEN 2 * Thousand - RoundedScore(a, s) ELSE 0

\* _calculate_class_balance_score(class_dist), in thousandths; with
\* mean_count = 0 the code takes cv = inf and 1 / (1 + inf) = 0.0.
CalculateClassBalanceScore(dist) ==
    IF DOMAIN dist = {} THEN 0
    ELSE LET n == Cardinality(DOMAIN dist)
             s == SumValues(dist, DOMAIN dist)
             a == n * SumSquares(dist) - s * s
         IN IF s > 0 THEN RoundedScore(a, s) ELSE 0

\* The histogram {a: 10, b: 10, c: 10}.
EqualHistogram == [c \in Range(ClassNames) |-> 10]

InitBalance ==
    /\ class_dist \in
         HistogramsOver(Range(ClassNames), MaxClassCount)
             \cup {EqualHistogram}
    /\ balance_score = 0
    /\ has_yaml = FALSE
    /\ has_classes_file = FALSE
    /\ output_given = FALSE
    /\ dataset_info = <<>>
    /\ report = <<>>
    /\ report_saved = FALSE
    /\ split_analysis = <<>>
    /\ overall_stats = <<>>
    /\ pcStats = "balance"
    /\ SplitIdle
    /\ SampleIdle
    /\ GeomIdle
    /\ ConvIdle
    /\ QualIdle
    /\ CreateIdle
    /\ ValIdle
    /\ SliceIdle
    /\ LateIdle

\* A call of _calculate_class_balance_score (lines 184-198).
ClassBalanceScore ==
    /\ pcStats = "balance"
    /\ balance_score' = CalculateClassBalanceScore(class_dist)
    /\ pcStats' = "scored"
    /\ UNCHANGED <<class_dist, split_analysis, overall_stats, has_yaml,
                   has_classes_file, output_given, dataset_info, report,
                   report_saved>>
    /\ UNCHANGED notStat

NextBalance == ClassBalanceScore

SpecBalance == InitBalance /\ [][NextBalance]_vars

--------------------------------------------------------------------------
(* Dataset creation: create_small_dataset (dataset_splitter.py) and its   *)
(* callers run_custom_pipeline (pipeline.py) and                          *)
(* create_dataset_with_config (run_dataset.py, with validate_config).     *)

\* Largest train_size and test_size requested (the smallest is -1).
MaxRequestSize == 2

TN1 == <<"t", "_", "1">>
TN2 == <<"t", "_", "2">>

\* Source images of a creation run: two pill codes, one name without '-',
\* one image without annotation; and the source test images.
CreateNames == {PN1, PN4, PN7, PN8}
TestNames == {TN1, TN2}

\* Strategy names a request may carry.
RequestedStrategies == Strategies \cup {"bogus"}

OutputDirs == {"train_images", "test_images", "train_annotations"}

\* validate_config (config.py lines 181-185): TRUE when it returns True,
\* FALSE when it raises ValueError.
ValidateConfig(tr, te, strat) ==
    /\ ~(tr <= 0 \/ te <= 0)
    /\ strat \in Strategies

InitCreate ==
    /\ entry \in {"config", "custom"}
    /\ source_images \in SUBSET CreateNames
    /\ strategy \in RequestedStrategies
    /\ train_size \in (0 - 1)..MaxRequestSize
    /\ test_size \in (0 - 1)..MaxRequestSize
    /\ test_images \in SUBSET TestNames
    /\ test_files = <<>>
    /\ out_dirs = {}
    /\ train_copied = {}
    /\ test_copied = {}
    /\ pcCreate = "request"
    /\ valid_pairs = <<>>
    /\ groups = <<>>
    /\ sample_order = <<>>
    /\ selected = <<>>
    /\ pcSample = "idle"
    /\ SplitIdle
    /\ GeomIdle
    /\ ConvIdle
    /\ QualIdle
    /\ StatIdle
    /\ ValIdle
    /\ SliceIdle
    /\ LateIdle

\* create_dataset_with_config lines 47-52: validate_config, and the return
\* of False when it raises.
CreateDatasetWithConfig ==
    /\ pcCreate = "request"
    /\ entry = "config"
    /\ pcCreate' = IF ValidateConfig(train_size, test_size, strategy)
                   THEN "setup" ELSE "rejected"
    /\ UNCHANGED <<entry, test_size, test_images, test_files, out_dirs,
                   train_copied, test_copied>>
    /\ UNCHANGED sampleVars
    /\ UNCHANGED notCreate

\* run_custom_pipeline lines 122-130: the call of create_small_dataset.
RunCustomPipeline ==
    /\ pcCreate = "request"
    /\ entry = "custom"
    /\ pcCreate' = "setup"
    /\ UNCHANGED <<entry, test_size, test_images, test_files, out_dirs,
                   train_copied, test_copied>>
    /\ UNCHANGED sampleVars
    /\ UNCHANGED notCreate

\* _setup_directories, then the call of _extract_train_pairs (lines 12-15).
SetupDirectories ==
    /\ pcCreate = "setup"
    /\ out_dirs' = OutputDirs
    /\ pcCreate' = "train"
    /\ pcSample' = "extract"
    /\ UNCHANGED <<entry, test_size, test_images, test_files,
                   train_copied, test_copied>>
    /\ UNCHANGED <<source_images, strategy, train_size, valid_pairs, groups,
                   sample_order, selected>>
    /\ UNCHANGED notCreate

\* _copy_train_data on the pairs _extract_train_pairs returned (line 16).
CopyTrainData ==
    /\ pcCreate = "train"
    /\ pcSample = "done"
    /\ train_copied' = Range(selected)
    /\ pcCreate' = "test"
    /\ UNCHANGED <<entry, test_size, test_images, test_files, out_dirs,
                   test_copied>>
    /\ UNCHANGED sampleVars
    /\ UNCHANGED notCreate

\* The exception of _extract_train_pairs leaves create_small_dataset.
ExtractTrainPairsRaises ==
    /\ pcCreate = "train"
    /\ pcSample = "error"
    /\ pcCreate' = "failed"
    /\ UNCHANGED <<entry, test_size, test_images, test_files, out_dirs,
                   train_copied, test_copied>>
    /\ UNCHANGED sampleVars
    /\ UNCHANGED notCreate

\* _extract_test_files (lines 116-119); random.sample raises ValueError
\* for a negative count.
ExtractTestFiles ==
    /\ pcCreate = "test"
    /\ LET pool == SetToSeq(test_images)
           k == Min(test_size, Len(pool))
       IN IF RandomSamples(pool, k) = {}
          THEN /\ pcCreate' = "failed"
               /\ UNCHANGED test_files
          ELSE /\ \E smp \in RandomSamples(pool, k) : test_files' = smp
               /\ pcCreate' = "copy_test"
    /\ UNCHANGED <<entry, test_size, test_images, out_dirs,
                   train_copied, test_copied>>
    /\ UNCHANGED sampleVars
    /\ UNCHANGED notCreate

\* _copy_test_data, _verify_dataset and the return (lines 19-23).
CopyTestData ==
    /\ pcCreate = "copy_test"
    /\ test_copied' = Range(test_files)
    /\ pcCreate' = "done"
    /\ UNCHANGED <<entry, test_size, test_images, test_files, out_dirs,
                   train_copied>>
    /\ UNCHANGED sampleVars
    /\ UNCHANGED notCreate

NextCreate ==
    \/ CreateDatasetWithConfig
    \/ RunCustomPipeline
    \/ SetupDirectories
    \/ ExtractTrainPairs
    \/ BalancedGroup
    \/ BalancedPick
    \/ BalancedAdjust
    \/ QualitySample
    \/ RandomSample
    \/ CopyTrainData
    \/ ExtractTrainPairsRaises
    \/ ExtractTestFiles
    \/ CopyTestData

SpecCreate == InitCreate /\ [][NextCreate]_vars

\* C12: a request with a strategy outside {balanced, quality, random}, or
\* with train_size <= 0 or test_size <= 0, is rejected before any I/O: it
\* never completes, no output directory is created and no file is copied.
BadRequestRejectedBeforeIO ==
    (strategy \notin Strategies \/ train_size <= 0 \/ test_size <= 0) =>
        /\ pcCreate # "done"
        /\ out_dirs = {}
        /\ train_copied = {}
        /\ test_copied = {}

\* C13: a stage is all-or-nothing: when the sample stage fails, none of
\* its output has been written (no directory created, no train or test
\* file copied).
FailedStageWritesNothing ==
    pcCreate = "failed" =>
        /\ out_dirs = {}
        /\ train_copied = {}
        /\ test_copied = {}

--------------------------------------------------------------------------
(* Validation: data_preprocess/modules/validation.py *)

\* Most train images and most test images of a validated dataset.
MaxValTrain == 2
MaxValTest == 1

\* What Image.open finds: a valid image, one under min_size, one whose
\* mode is neither RGB nor L, one it cannot read.
ImageKinds == {"ok", "small", "mode", "corrupt"}
\* The annotation of a train image: valid JSON, no file, invalid JSON.
AnnotationKinds == {"ok", "missing", "invalid"}

ValItem(img, ann) == [image |-> img, annotation |-> ann]

ListsUpTo(S, n) == UNION {[1..k -> S] : k \in 0..n}

\* The issue validate_images records for an image, "none" for a valid one.
ImageIssue(item) ==
    CASE item.image = "small" -> "Small image"
      [] item.image = "mode" -> "Invalid format"
      [] item.image = "corrupt" -> "Corrupted image"
      [] OTHER -> "none"

\* The issue validate_annotations records for a train image.
AnnotationIssue(item) ==
    CASE item.annotation = "missing" -> "Missing annotation"
      [] item.annotation = "invalid" -> "Invalid JSON"
      [] OTHER -> "none"

\* valid / total * 100 of the summary: ZeroDivisionError when total = 0.
Percent(valid, total) == TrueDiv(valid * 100, total)

InitValidate ==
    /\ val_train \in
         ListsUpTo({ValItem(i, a) : i \in ImageKinds, a \in AnnotationKinds},
                   MaxValTrain)
    /\ val_test \in
         ListsUpTo({ValItem(i, "missing") : i \in ImageKinds}, MaxValTest)
    /\ img_pos = 0
    /\ img_valid = 0
    /\ img_issues = <<>>
    /\ ann_pos = 0
    /\ ann_valid = 0
    /\ ann_issues = <<>>
    /\ pcVal = "images"
    /\ SplitIdle
    /\ SampleIdle
    /\ GeomIdle
    /\ ConvIdle
    /\ QualIdle
    /\ StatIdle
    /\ CreateIdle
    /\ SliceIdle
    /\ LateIdle

\* One iteration of the loop of validate_images (lines 17-35).
ValidateImage ==
    /\ pcVal = "images"
    /\ img_pos < Len(val_train \o val_test)
    /\ LET item == (val_train \o val_test)[img_pos + 1]
       IN IF ImageIssue(item) = "none"
          THEN /\ img_valid' = img_valid + 1
               /\ UNCHANGED img_issues
          ELSE /\ img_issues' = Append(img_issues,
                                       <<ImageIssue(item), img_pos + 1>>)
               /\ UNCHANGED img_valid
    /\ img_pos' = img_pos + 1
    /\ UNCHANGED <<val_train, val_test, ann_pos, ann_valid, ann_issues, pcVal>>
    /\ UNCHANGED notVal

\* The return of validate_images (lines 37-43).
ValidateImagesReturn ==
    /\ pcVal = "images"
    /\ img_pos = Len(val_train \o val_test)
    /\ pcVal' = "annotations"
    /\ UNCHANGED <<val_train, val_test, img_pos, img_valid, img_issues,
                   ann_pos, ann_valid, ann_issues>>
    /\ UNCHANGED notVal

\* One iteration of the loop of validate_annotations (lines 53-68).
ValidateAnnotation ==
    /\ pcVal = "annotations"
    /\ ann_pos < Len(val_train)
    /\ LET item == val_train[ann_pos + 1]
       IN IF AnnotationIssue(item) = "none"
          THEN /\ ann_valid' = ann_valid + 1
               /\ UNCHANGED ann_issues
          ELSE /\ ann_issues' = Append(ann_issues,
                                       <<AnnotationIssue(item), ann_pos + 1>>)
               /\ UNCHANGED ann_valid
    /\ ann_pos' = ann_pos + 1
    /\ UNCHANGED <<val_train, val_test, img_pos, img_valid, img_issues, pcVal>>
    /\ UNCHANGED notVal

\* The return of validate_annotations, then the summary of
\* validate_dataset with its two percentages, and its return (lines 70-94).
ValidationSummary ==
    /\ pcVal = "annotations"
    /\ ann_pos = Len(val_train)
    /\ pcVal' = IF \/ Percent(img_valid, Len(val_train \o val_test))
                         = ZeroDivisionError
                   \/ Percent(ann_valid, Len(val_train)) = ZeroDivisionError
                THEN "error" ELSE "done"
    /\ UNCHANGED <<val_train, val_test, img_pos, img_valid, img_issues,
                   ann_pos, ann_valid, ann_issues>>
    /\ UNCHANGED notVal

NextValidate ==
    \/ ValidateImage
    \/ ValidateImagesReturn
    \/ ValidateAnnotation
    \/ ValidationSummary

SpecValidate == InitValidate /\ [][NextValidate]_vars

\* The failing items of a list under an issue function, as issue entries.
IssuesOf(items, issue(_)) ==
    {<<issue(items[i]), i>> : i \in {j \in 1..Len(items) :
                                        issue(items[j]) # "none"}}

\* C14: validate_dataset never aborts: for every dataset content (all
\* items failing and no item at all included) it returns normally, every
\* item has been examined, each failing item is in the issues list, and
\* the valid and total counts are those of the content.
ValidationNeverAborts ==
    pcVal \in {"done", "error"} =>
        /\ pcVal = "done"
        /\ img_pos = Len(val_train \o val_test)
        /\ ann_pos = Len(val_train)
        /\ Range(img_issues) = IssuesOf(val_train \o val_test, ImageIssue)
        /\ Range(ann_issues) = IssuesOf(val_train, AnnotationIssue)
        /\ img_valid + Len(img_issues) = Len(val_train \o val_test)
        /\ ann_valid + Len(ann_issues) = Len(val_train)

--------------------------------------------------------------------------
(* Analysis stage: analyze_yolo_dataset (data_analyzer.py) *)

\* The names in dataset.yaml and the lines of classes.txt.
YamlNames == <<"a", "b">>

SplitResult(images, label_files_n, objects, dist) ==
    [image_count |-> images, label_count |-> label_files_n,
     total_objects |-> objects, class_distribution |-> dist]

\* What _analyze_split can return for a split with at most max_images
\* images, at most one label file, classes among names with at most
\* max_count boxes each, and at most short_lines lines of fewer than five
\* fields (counted in total_objects, not in class_distribution).
SplitResults(max_images, names, max_count, short_lines) ==
    {SplitResult(i, 0, 0, <<>>) : i \in 0..max_images}
    \cup {SplitResult(i, 1, SumValues(d, DOMAIN d) + x, d) :
            i \in 0..max_images,
            d \in HistogramsOver(names, max_count),
            x \in 0..short_lines}

\* _load_dataset_info: dataset.yaml, else classes.txt, else no class.
LoadDatasetInfoOf(yaml, classes_file) ==
    IF yaml
    THEN [total_classes |-> Len(YamlNames), class_names |-> YamlNames,
          source |-> "dataset.yaml"]
    ELSE IF classes_file
    THEN [total_classes |-> Len(YamlNames), class_names |-> YamlNames,
          source |-> "classes.txt"]
    ELSE [total_classes |-> 0, class_names |-> <<>>, source |-> "none"]

\* overall_class_dist of _generate_overall_stats (lines 164-167).
OverallClassDist(results) ==
    LET names == UNION {DOMAIN results[sp].class_distribution :
                           sp \in Range(Splits)}
        CountIn(sp, c) ==
            IF c \in DOMAIN results[sp].class_distribution
            THEN results[sp].class_distribution[c] ELSE 0
    IN [c \in names |->
          SumOver([sp \in Range(Splits) |-> CountIn(sp, c)], Splits)]

Zero == Rat(0, 1)

\* Mutant of GenerateOverallStatsOf: the divisions without their guards.
GenerateOverallStatsUnguarded(results) ==
    LET total_images ==
            SumOver([sp \in Range(Splits) |-> results[sp].image_count], Splits)
        total_objects ==
            SumOver([sp \in Range(Splits) |-> results[sp].total_objects], Splits)
        overall_class_dist == OverallClassDist(results)
    IN [total_images |-> total_images,
        total_objects |-> total_objects,
        avg_objects_per_image |-> TrueDiv(total_objects, total_images),
        split_ratios |->
            [sp \in Range(Splits) |->
                TrueDiv(results[sp].image_count, total_images)],
        class_distribution |-> overall_class_dist,
        class_balance_score |-> CalculateClassBalanceScore(overall_class_dist)]

\* _generate_overall_stats (lines 158-182).
GenerateOverallStatsOf(results) ==
    LET total_images ==
            SumOver([sp \in Range(Splits) |-> results[sp].image_count], Splits)
        total_objects ==
            SumOver([sp \in Range(Splits) |-> results[sp].total_objects], Splits)
        overall_class_dist == OverallClassDist(results)
    IN [total_images |-> total_images,
        total_objects |-> total_objects,
        avg_objects_per_image |->
            IF total_images > 0 THEN TrueDiv(total_objects, total_images)
            ELSE Zero,
        split_ratios |->
            [sp \in Range(Splits) |->
                IF total_images > 0
                THEN TrueDiv(results[sp].image_count, total_images)
                ELSE Zero],
        class_distribution |-> overall_class_dist,
        class_balance_score |-> CalculateClassBalanceScore(overall_class_dist)]

\* The values _calculate_quality_metrics can return for the results.
QualityMetricsOf(results) ==
    LET consistencies ==
            [sp \in Range(Splits) |->
                Consistency(results[sp].image_count, results[sp].label_count)]
        total_images ==
            SumOver([sp \in Range(Splits) |-> results[sp].image_count], Splits)
        overall_quality == OverallQuality(consistencies, total_images)
    IN {("overall_quality_score" :> score) @@ consistencies :
            score \in Round3(overall_quality.num, overall_quality.den)}

InitAnalyze ==
    /\ has_yaml \in BOOLEAN
    /\ has_classes_file \in BOOLEAN
    /\ output_given \in BOOLEAN
    /\ \E tr \in SplitResults(MaxSplitImages, {"a", "b"},
                              MaxSplitClassCount, 1),
          va \in SplitResults(MaxSplitImages, {"b"}, 1, 0),
          te \in SplitResults(MaxSplitImages, {}, 1, 0) :
          split_analysis =
              [sp \in Range(Splits) |->
                  IF sp = "train" THEN tr ELSE IF sp = "val" THEN va ELSE te]
    /\ dataset_info = <<>>
    /\ overall_stats = <<>>
    /\ report = <<>>
    /\ report_saved = FALSE
    /\ class_dist = <<>>
    /\ balance_score = 0
    /\ pcStats = "load"
    /\ SplitIdle
    /\ SampleIdle
    /\ GeomIdle
    /\ ConvIdle
    /\ QualIdle
    /\ CreateIdle
    /\ ValIdle
    /\ SliceIdle
    /\ LateIdle

\* Line 20: _load_dataset_info, which has no failing branch; the loop
\* over the splits (lines 26-29) then yields split_analysis.
LoadDatasetInfo ==
    /\ pcStats = "load"
    /\ dataset_info' = LoadDatasetInfoOf(has_yaml, has_classes_file)
    /\ pcStats' = "stats"
    /\ UNCHANGED <<has_yaml, has_classes_file, output_given, split_analysis,
                   report, report_saved, class_dist, balance_score,
                   overall_stats>>
    /\ UNCHANGED notStat

\* Line 32: _generate_overall_stats, with its call of
\* _calculate_class_balance_score.
GenerateOverallStats ==
    /\ pcStats = "stats"
    /\ overall_stats' = GenerateOverallStatsOf(split_analysis)
    /\ class_dist' = OverallClassDist(split_analysis)
    /\ balance_score' = overall_stats'.class_balance_score
    /\ pcStats' = "report"
    /\ UNCHANGED <<has_yaml, has_classes_file, output_given, dataset_info,
                   split_analysis, report, report_saved>>
    /\ UNCHANGED notStat

\* Lines 35-50: the report with its quality metrics, saved when an
\* output_path was given, and returned.
CreateReport ==
    /\ pcStats = "report"
    /\ \E quality_metrics \in QualityMetricsOf(split_analysis) :
          report' = [dataset_info |-> dataset_info,
                     split_analysis |-> split_analysis,
                     overall_stats |-> overall_stats,
                     quality_metrics |-> quality_metrics]
    /\ report_saved' = output_given
    /\ pcStats' = "done"
    /\ UNCHANGED <<has_yaml, has_classes_file, output_given, dataset_info,
                   split_analysis, class_dist, balance_score, overall_stats>>
    /\ UNCHANGED notStat

NextAnalyze == LoadDatasetInfo \/ GenerateOverallStats \/ CreateReport

SpecAnalyze == InitAnalyze /\ [][NextAnalyze]_vars

\* C15: the analysis of a dataset directory without dataset.yaml ends in
\* a failure of the stage: no report is returned and none is written.
AnalysisWithoutYamlFails ==
    (~has_yaml /\ pcStats \in {"done", "failed"}) =>
        /\ pcStats = "failed"
        /\ report = <<>>
        /\ ~report_saved

\* C18: every ratio and score of the analyzer is defined when its
\* denominator is zero: no division raises, with zero total images every
\* split ratio and the average objects per image are 0, with an empty
\* class histogram the balance score is 0, and the quality metrics of
\* the report exist for every split, 0 for a split without images.
ZeroDenominatorsDefined ==
    pcStats \in {"report", "done"} =>
        /\ overall_stats.avg_objects_per_image # ZeroDivisionError
        /\ \A sp \in Range(Splits) :
              overall_stats.split_ratios[sp] # ZeroDivisionError
        /\ overall_stats.total_images = 0 =>
              /\ overall_stats.avg_objects_per_image = Zero
              /\ \A sp \in Range(Splits) :
                    overall_stats.split_ratios[sp] = Zero
        /\ DOMAIN overall_stats.class_distribution = {} =>
              overall_stats.class_balance_score = 0
        /\ pcStats = "done" =>
              \A sp \in Range(Splits) :
                 /\ sp \in DOMAIN report.quality_metrics
                 /\ split_analysis[sp].image_count = 0 =>
                       report.quality_metrics[sp] = 0

\* A report on a dataset without any image whose train split still holds
\* a label file with one line.
ZeroDenominatorsDefinedWitness ==
    /\ pcStats = "done"
    /\ overall_stats.total_images = 0
    /\ overall_stats.total_objects > 0
    /\ DOMAIN overall_stats.class_distribution = {}
    /\ overall_stats.avg_objects_per_image = Zero
    /\ report.quality_metrics["train"] = 0

--------------------------------------------------------------------------
(* Output paths of the conversion stage *)

\* C16: within one conversion run every label path is written by at most
\* one (annotation file, image record) entry, so no label written earlier
\* in the run is overwritten later: the number of label files on disk is
\* the number of label writes made so far.
LabelPathsWrittenOnce ==
    converted_count = Cardinality(DOMAIN labels)

--------------------------------------------------------------------------
(* Class keys of the splitter and of the sampler *)

\* C17: the splitter derives for every image name the class key the
\* sampler derives for it; a name without '-' gets "unknown" in both.
SplitterKeyIsSamplerKey ==
    \A i \in 1..Len(pairs) :
        /\ pairs[i].pill_code = PillCodeOfPair(pairs[i].name)
        /\ FirstIndex(pairs[i].name, "-", 1) = 0 =>
              pairs[i].pill_code = Unknown

--------------------------------------------------------------------------
(* Size of the balanced sample *)

\* C19: for a non-empty pool of distinct pairs and a target size >= 0 the
\* balanced strategy returns exactly min(target size, pool size) items,
\* all of them pool members and none of them twice.
BalancedSampleIsExact ==
    (pcSample = "done" /\ strategy = "balanced" /\ valid_pairs # <<>>) =>
        /\ Len(selected) = Min(train_size, Len(valid_pairs))
        /\ Range(selected) \subseteq Range(valid_pairs)
        /\ Cardinality(Range(selected)) = Len(selected)

\* A balanced sample that needed the top-up: two groups of unequal size,
\* a target above what the per-group picks give and below the pool size.
BalancedSampleIsExactWitness ==
    /\ pcSample = "done"
    /\ strategy = "balanced"
    /\ Cardinality(DOMAIN groups) >= 2
    /\ \E c \in DOMAIN groups :
          Len(groups[c]) < SamplesPerGroup(train_size, Cardinality(DOMAIN groups))
    /\ train_size < Len(valid_pairs)
    /\ Len(selected) = train_size

--------------------------------------------------------------------------
(* Per-group sizes of the stratified split *)

MaxGroupLen == 100

\* The ratios a caller can pass, in tenths.
SliceRatios == 0..MaxRatioTenths

notSlice == <<sampleVars, geomVars, convVars, qualVars, statVars, createVars,
              valVars, lateVars>>

\* One class-key group of _stratified_split, seen through its size.
InitSlice ==
    /\ group_len \in 0..MaxGroupLen
    /\ train_ratio \in SliceRatios
    /\ val_ratio \in SliceRatios
    /\ test_ratio = 0
    /\ image_files = {}
    /\ label_files = {}
    /\ pairs = <<>>
    /\ pill_groups = <<>>
    /\ group_order = <<>>
    /\ train_pairs = <<>>
    /\ val_pairs = <<>>
    /\ test_pairs = <<>>
    /\ pcSplit = "idle"
    /\ contributed = <<>>
    /\ pcSlice = "slice"
    /\ SampleIdle
    /\ GeomIdle
    /\ ConvIdle
    /\ QualIdle
    /\ StatIdle
    /\ CreateIdle
    /\ ValIdle
    /\ LateIdle

\* One pass of the loop body, lines 108-114: the two ends and the three
\* slices group_pairs[:train_end], [train_end:val_end], [val_end:].
StratifiedSlice ==
    /\ pcSlice = "slice"
    /\ LET n == group_len
           group_pairs == [i \in 1..n |-> i]
           train_end == TrainEnd(n, train_ratio)
           val_end == ValEnd(n, train_ratio, val_ratio)
       IN contributed' =
             [train |-> Len(Slice(group_pairs, 0, train_end)),
              val |-> Len(Slice(group_pairs, train_end, val_end)),
              test |-> Len(Slice(group_pairs, val_end, n))]
    /\ pcSlice' = "done"
    /\ UNCHANGED <<group_len, splitVars, notSlice>>

NextSlice == StratifiedSlice

SpecSlice == InitSlice /\ [][NextSlice]_vars

\* C20: a class-key group of size n with
\* floor(n * train_ratio) + floor(n * val_ratio) <= n contributes exactly
\* floor(n * train_ratio) pairs to train, floor(n * val_ratio) to val and
\* the remaining pairs to test: the flooring remainder lands in test.
GroupContributesFloors ==
    pcSlice = "done" =>
        LET n == group_len
            to_train == FloorTenths(n, train_ratio)
            to_val == FloorTenths(n, val_ratio)
        IN to_train + to_val <= n =>
              contributed = [train |-> to_train,
                             val |-> to_val,
                             test |-> n - to_train - to_val]

--------------------------------------------------------------------------
(* Label analysis of one split: _analyze_split, lines 115-156 *)

MaxLabelFiles == 2
MaxLines == 2

\* A field of a label line: an integer literal (int() and float() accept
\* it), a decimal literal in thousandths (only float() accepts it) or a
\* word (neither accepts it).
IntField(v) == [kind |-> "int", v |-> v]
DecField(v) == [kind |-> "dec", v |-> v]
WordField == [kind |-> "word", v |-> 0]

\* A line is line.strip().split(): the list of its fields.
BoxLine(class_id) ==
    <<IntField(class_id), DecField(500), DecField(250), DecField(100),
      DecField(200)>>
ShortLine == <<IntField(0), DecField(500)>>
BlankLine == <<>>
\* A line whose class id is not a number: int(parts[0]) raises.
WordLine ==
    <<WordField, DecField(500), DecField(250), DecField(100), DecField(200)>>

\* Class ids below, inside and above the vocabularies used.
LabelClassIds == {-1, 0, 1}

LabelLines ==
    {BoxLine(c) : c \in LabelClassIds}
        \cup {ShortLine, BlankLine, WordLine}

Vocabularies == {<<>>, <<"a">>, <<"a", "b">>}

\* dict[key] += 1 on a defaultdict(int).
Increment(d, key) ==
    IF key \in DOMAIN d THEN [d EXCEPT ![key] = @ + 1] ELSE d @@ (key :> 1)

\* Mutant of AnalyzeLine: a line with fewer than 5 fields raises, which
\* ends the file.
AnalyzeLineShortRaises(parts, names, acc) ==
    IF Len(parts) < 5 THEN [acc EXCEPT !.raised = TRUE]
    ELSE IF parts[1].kind # "int" THEN [acc EXCEPT !.raised = TRUE]
    ELSE IF \E k \in 2..5 : parts[k].kind = "word"
         THEN [acc EXCEPT !.raised = TRUE]
    ELSE LET class_id == parts[1].v
         IN IF class_id < Len(names) /\ class_id < 0 - Len(names)
            THEN [acc EXCEPT !.raised = TRUE]
            ELSE LET class_name ==
                        IF class_id < Len(names)
                        THEN (IF class_id >= 0 THEN names[class_id + 1]
                              ELSE names[Len(names) + class_id + 1])
                        ELSE "class_" \o ToString(class_id)
                 IN [acc EXCEPT
                        !.class_distribution = Increment(@, class_name),
                        !.bbox_sizes = Append(@, <<parts[4].v, parts[5].v>>),
                        !.bbox_centers = Append(@, <<parts[2].v, parts[3].v>>)]

\* Lines 128-142 for one line: int(parts[0]) and float(...) raise on a field
\* they do not accept; class_names[class_id] with a negative class_id counts
\* from the end of the list and raises IndexError beyond its start.
AnalyzeLine(parts, names, acc) ==
    IF Len(parts) < 5 THEN acc
    ELSE IF parts[1].kind # "int" THEN [acc EXCEPT !.raised = TRUE]
    ELSE IF \E k \in 2..5 : parts[k].kind = "word"
         THEN [acc EXCEPT !.raised = TRUE]
    ELSE LET class_id == parts[1].v
         IN IF class_id < Len(names) /\ class_id < 0 - Len(names)
            THEN [acc EXCEPT !.raised = TRUE]
            ELSE LET class_name ==
                        IF class_id < Len(names)
                        THEN (IF class_id >= 0 THEN names[class_id + 1]
                              ELSE names[Len(names) + class_id + 1])
                        ELSE "class_" \o ToString(class_id)
                 IN [acc EXCEPT
                        !.class_distribution = Increment(@, class_name),
                        !.bbox_sizes = Append(@, <<parts[4].v, parts[5].v>>),
                        !.bbox_centers = Append(@, <<parts[2].v, parts[3].v>>)]

\* The loop over the lines of one file (line 127), left at the first line
\* that raises: the bare except of line 143 goes on to the next file.
RECURSIVE AnalyzeLines(_, _, _)
AnalyzeLines(rest, names, acc) ==
    IF rest = <<>> THEN acc
    ELSE LET after == AnalyzeLine(Head(rest), names, acc)
         IN IF after.raised THEN after
            ELSE AnalyzeLines(Tail(rest), names, after)

\* Lines 119-144 for one label file whose lines are file_lines.
AnalyzeFile(file_lines, names, acc) ==
    LET counted == [acc EXCEPT
                        !.total_objects = @ + Len(file_lines),
                        !.objects_per_image = Append(@, Len(file_lines))]
    IN [AnalyzeLines(file_lines, names, counted) EXCEPT !.raised = FALSE]

\* Lines 90-104: the dict before the loops.
EmptyAnalysis(label_count) ==
    [label_count |-> label_count,
     class_distribution |-> <<>>,
     total_objects |-> 0,
     bbox_sizes |-> <<>>,
     bbox_centers |-> <<>>,
     objects_per_image |-> <<>>,
     raised |-> FALSE]

\* The contents a label file can have.
LabelFileContents == ListsUpTo(LabelLines, MaxLines)

InitLabels ==
    /\ class_names \in Vocabularies
    /\ lines = <<>>
    /\ lbl_pos = 0
    /\ \E label_count \in 0..MaxLabelFiles : analysis = EmptyAnalysis(label_count)
    /\ pcLabels = "labels"
    /\ SplitIdle
    /\ SampleIdle
    /\ GeomIdle
    /\ ConvIdle
    /\ QualIdle
    /\ StatIdle
    /\ CreateIdle
    /\ ValIdle
    /\ SliceIdle
    /\ PrepIdle
    /\ YamlIdle
    /\ OutIdle

notLabel == <<splitVars, sampleVars, geomVars, convVars, qualVars, statVars,
              createVars, valVars, sliceVars, prepVars, yamlVars, outVars>>

\* One pass of the loop of line 118: the next label file is read and its
\* lines are analyzed.
AnalyzeLabelFile ==
    /\ pcLabels = "labels"
    /\ lbl_pos < analysis.label_count
    /\ \E read \in LabelFileContents :
        /\ lines' = read
        /\ analysis' = AnalyzeFile(read, class_names, analysis)
    /\ lbl_pos' = lbl_pos + 1
    /\ UNCHANGED <<class_names, pcLabels>>
    /\ UNCHANGED notLabel

\* Lines 147-156: the averages and the return.
AnalyzeSplitReturn ==
    /\ pcLabels = "labels"
    /\ lbl_pos = analysis.label_count
    /\ pcLabels' = "done"
    /\ UNCHANGED <<class_names, lines, lbl_pos, analysis>>
    /\ UNCHANGED notLabel

NextLabels == AnalyzeLabelFile \/ AnalyzeSplitReturn

SpecLabels == InitLabels /\ [][NextLabels]_vars

\* A line with at least 5 fields, an integer class id and four numbers.
IsNumericBox(parts) ==
    /\ Len(parts) >= 5
    /\ parts[1].kind = "int"
    /\ \A k \in 2..5 : parts[k].kind # "word"

\* The histogram entry of a class id: class_names[id] inside
\* 0..len(class_names)-1, the synthetic name outside.
NameOfClassId(id) ==
    IF id >= 0 /\ id < Len(class_names) THEN class_names[id + 1]
    ELSE "class_" \o ToString(id)

CountIn(d, key) == IF key \in DOMAIN d THEN d[key] ELSE 0

\* C21: for every label line whose class id is outside
\* 0..len(class_names)-1, too large or negative, the histogram entry
\* incremented is "class_<id>", and for every id inside the range it is
\* class_names[id]: a file of well-formed lines adds to each entry the
\* number of its lines whose class id has that entry.
OutOfRangeIdGetsSyntheticName ==
    [][(lbl_pos' = lbl_pos + 1
            /\ \A k \in 1..Len(lines') : IsNumericBox(lines'[k])) =>
        \A key \in DOMAIN analysis'.class_distribution
                    \cup {NameOfClassId(lines'[k][1].v) : k \in 1..Len(lines')} :
            CountIn(analysis'.class_distribution, key)
                - CountIn(analysis.class_distribution, key) =
                Cardinality({k \in 1..Len(lines') :
                                NameOfClassId(lines'[k][1].v) = key})]_vars

\* The lines of a file with the lines of fewer than 5 fields taken out.
WithoutShortLines(file_lines) ==
    SelectSeq(file_lines, LAMBDA parts : Len(parts) >= 5)

\* C22: a label line with fewer than 5 fields is skipped: reading a file
\* changes the class histogram and the box size and center samples as
\* reading the same file without that line does, so the lines after it are
\* analyzed as they would be without it and the files after its file start
\* from the same histogram and samples.
ShortLineIsSkipped ==
    [][lbl_pos' = lbl_pos + 1 =>
        LET without == AnalyzeFile(WithoutShortLines(lines'), class_names,
                                   analysis)
        IN /\ analysis'.class_distribution = without.class_distribution
           /\ analysis'.bbox_sizes = without.bbox_sizes
           /\ analysis'.bbox_centers = without.bbox_centers]_vars

\* A file after the first starts with a short line followed by a box, and
\* the box was counted and sampled.
ShortLineIsSkippedWitness ==
    /\ lbl_pos = 2
    /\ lines = <<ShortLine, BoxLine(1)>>
    /\ class_names = <<"a", "b">>
    /\ analysis.objects_per_image = <<1, 2>>
    /\ analysis.class_distribution = [k \in {"a", "b"} |-> 1]
    /\ Len(analysis.bbox_sizes) = 2

RECURSIVE SumCounts(_)
SumCounts(d) ==
    IF DOMAIN d = {} THEN 0
    ELSE LET k == CHOOSE x \in DOMAIN d : TRUE
         IN d[k] + SumCounts([x \in DOMAIN d \ {k} |-> d[x]])

\* C29: for every content of the label files (blank, short and
\* non-numeric lines included) total_objects equals the sum of the counts
\* of the class histogram and the number of box size samples.
TotalObjectsMatchesHistogram ==
    pcLabels = "done" =>
        /\ analysis.total_objects = SumCounts(analysis.class_distribution)
        /\ analysis.total_objects = Len(analysis.bbox_sizes)

--------------------------------------------------------------------------
(* The lines of a label file *)

--------------------------------------------------------------------------
(* dataset.yaml: _create_dataset_yaml, dataset_split.py lines 136-162 *)

\* classes.txt as the converter writes it (lines 277-278): one line per
\* code, the code followed by a newline.
ClassesFile(codes) == [i \in 1..Len(codes) |-> codes[i] \o <<"\n">>]

Whitespace == {" ", "\n"}

\* str.strip(): leading and trailing whitespace removed.
RECURSIVE Strip(_)
Strip(line) ==
    IF line = <<>> THEN <<>>
    ELSE IF Head(line) \in Whitespace THEN Strip(Tail(line))
    ELSE IF line[Len(line)] \in Whitespace
         THEN Strip(SubSeq(line, 1, Len(line) - 1))
    ELSE line

\* Line 143: the stripped lines that are not empty.
ReadClassNames(file) ==
    LET stripped == [i \in 1..Len(file) |-> Strip(file[i])]
    IN SelectSeq(stripped, LAMBDA name : name # <<>>)

\* The split stage writes dataset.yaml from the classes.txt of the
\* conversion; without that file the names are ["pill"].
CreateDatasetYaml ==
    /\ pcYaml = "idle"
    /\ pcConv \in {"done", "none"}
    /\ LET names == IF pcConv = "done"
                    THEN ReadClassNames(ClassesFile(sorted_codes))
                    ELSE << <<"pill">> >>
       IN dataset_config' = [nc |-> Len(names), names |-> names]
    /\ pcYaml' = "done"
    /\ UNCHANGED <<splitVars, sampleVars, geomVars, convVars, qualVars,
                   statVars, createVars, valVars, sliceVars, labelVars,
                   prepVars, outVars>>

NextYaml == NextConvert \/ CreateDatasetYaml

SpecYaml == InitConvert /\ [][NextYaml]_vars

\* C24: after conversion and splitting, dataset.yaml has nc equal to the
\* length of names and to the number of class keys of the vocabulary, and
\* names[i] is the class key that was given id i, for every vocabulary,
\* one with an empty class key included.
YamlNamesFollowVocabulary ==
    (pcYaml = "done" /\ pcConv = "done") =>
        /\ dataset_config.nc = Len(dataset_config.names)
        /\ dataset_config.nc = Cardinality(DOMAIN code_to_id)
        /\ \A code \in DOMAIN code_to_id :
              /\ code_to_id[code] + 1 \in DOMAIN dataset_config.names
              /\ dataset_config.names[code_to_id[code] + 1] = code

--------------------------------------------------------------------------
(* Consecutive runs of split_dataset_for_yolo on one output path *)

MaxRuns == 2

SplitDirs == {"train", "val", "test"}

\* The input of the repeated runs.
RerunNames == {SN1, SN2, SN5}

NamesOf(ps) == {ps[i].name : i \in 1..Len(ps)}

\* The first run starts on an empty output path; _create_yolo_structure
\* (lines 53-61) makes the six directories.
InitRerun ==
    /\ image_files \in SUBSET RerunNames
    /\ label_files = image_files
    /\ train_ratio \in {5, 8}
    /\ val_ratio \in {0, 5}
    /\ test_ratio = 1
    /\ pairs = <<>>
    /\ pill_groups = <<>>
    /\ group_order = <<>>
    /\ train_pairs = <<>>
    /\ val_pairs = <<>>
    /\ test_pairs = <<>>
    /\ pcSplit = "pairs"
    /\ out_files = [d \in SplitDirs |-> {}]
    /\ run_count = 1
    /\ SampleIdle
    /\ GeomIdle
    /\ ConvIdle
    /\ QualIdle
    /\ StatIdle
    /\ CreateIdle
    /\ ValIdle
    /\ SliceIdle
    /\ LabelIdle
    /\ PrepIdle
    /\ YamlIdle

notOut == <<sampleVars, geomVars, convVars, qualVars, statVars, createVars,
            valVars, sliceVars, labelVars, prepVars, yamlVars>>

\* Lines 33-35 and the return: the three calls of _copy_split_data, each
\* copying image and label of every pair into its split's directories
\* (shutil.copy2 adds or replaces a file and removes nothing).
CopySplitData ==
    /\ pcSplit = "done"
    /\ out_files' = [d \in SplitDirs |->
                        out_files[d] \cup
                            NamesOf(CASE d = "train" -> train_pairs
                                      [] d = "val" -> val_pairs
                                      [] d = "test" -> test_pairs)]
    /\ pcSplit' = "returned"
    /\ UNCHANGED <<image_files, label_files, train_ratio, val_ratio,
                   test_ratio, pairs, pill_groups, group_order,
                   train_pairs, val_pairs, test_pairs, run_count>>
    /\ UNCHANGED notOut

\* The stage is called again with the same arguments: makedirs with
\* exist_ok=True keeps what the directories hold.
SplitAgain ==
    /\ pcSplit = "returned"
    /\ run_count < MaxRuns
    /\ run_count' = run_count + 1
    /\ pairs' = <<>>
    /\ pill_groups' = <<>>
    /\ group_order' = <<>>
    /\ train_pairs' = <<>>
    /\ val_pairs' = <<>>
    /\ test_pairs' = <<>>
    /\ pcSplit' = "pairs"
    /\ UNCHANGED <<image_files, label_files, train_ratio, val_ratio,
                   test_ratio, out_files>>
    /\ UNCHANGED notOut

NextRerun == NextSplit \/ CopySplitData \/ SplitAgain

SpecRerun == InitRerun /\ [][NextRerun]_vars

\* C25: after any number of consecutive runs of the split stage on the
\* same input and output path, every image name is present in exactly one
\* of images/train, images/val and images/test.
EachNameInOneSplitDir ==
    pcSplit = "returned" =>
        \A name \in NamesOf(pairs) :
            Cardinality({d \in SplitDirs : name \in out_files[d]}) = 1

--------------------------------------------------------------------------
(* test_ratio and the result of _stratified_split *)

\* Values of test_ratio to compare with, from none to more than the whole.
OtherTestRatios == TestRatios \cup {0, MaxRatioTenths}

--------------------------------------------------------------------------
(* Groups represented in the balanced sample *)

\* C27: when the pool is not empty and there are at most target-size
\* class-key groups, the balanced sample holds at least one item of every
\* class-key group of the pool.
EveryGroupIsSampled ==
    (/\ pcSample = "done"
     /\ strategy = "balanced"
     /\ valid_pairs # <<>>
     /\ Cardinality(DOMAIN groups) <= train_size) =>
        \A c \in DOMAIN groups :
            \E i \in 1..Len(selected) : PillCodeOfPair(selected[i]) = c

\* Three groups, a target of at least three that is below the pool size:
\* a returned sample that holds a part of the pool and every class key.
EveryGroupIsSampledWitness ==
    /\ pcSample = "done"
    /\ strategy = "balanced"
    /\ Cardinality(DOMAIN groups) = 3
    /\ train_size >= 3
    /\ train_size < Len(valid_pairs)
    /\ Len(selected) = train_size
    /\ {PillCodeOfPair(selected[i]) : i \in 1..Len(selected)} = DOMAIN groups

--------------------------------------------------------------------------
(* preprocess_dataset: preprocessing.py lines 94-148 *)

MaxPrepTrain == 2
MaxPrepTest == 1

\* An input image: whether process_image can read it, and for a train
\* image its annotation file: found and updated, not found by the glob of
\* line 121, or found but rejected by update_annotation_coords.
PrepImageKinds == {"ok", "corrupt"}
PrepAnnotationKinds == {"ok", "missing", "bad"}

PrepItem(image, annotation) == [image |-> image, annotation |-> annotation]

\* process_image (lines 41-56): the params, or None for an image that
\* raises.
ProcessImageResult(item) == IF item.image = "ok" THEN "params" ELSE "None"

\* update_annotation_coords (lines 58-92): True, or False when reading or
\* writing the annotation raises.
UpdateAnnotationResult(item) == item.annotation = "ok"

InitPrep ==
    /\ prep_train \in ListsUpTo({PrepItem(i, a) : i \in PrepImageKinds,
                                                  a \in PrepAnnotationKinds},
                                MaxPrepTrain)
    /\ prep_test \in ListsUpTo({PrepItem(i, "missing") : i \in PrepImageKinds},
                               MaxPrepTest)
    /\ prep_pos = 0
    /\ processed_count = 0
    /\ failed_count = 0
    /\ pcPrep = "train"
    /\ SplitIdle
    /\ SampleIdle
    /\ GeomIdle
    /\ ConvIdle
    /\ QualIdle
    /\ StatIdle
    /\ CreateIdle
    /\ ValIdle
    /\ SliceIdle
    /\ LabelIdle
    /\ YamlIdle
    /\ OutIdle

notPrep == <<splitVars, sampleVars, geomVars, convVars, qualVars, statVars,
             createVars, valVars, sliceVars, labelVars, yamlVars, outVars>>

\* One pass of the train loop (lines 109-132).
PreprocessTrainImage ==
    /\ pcPrep = "train"
    /\ prep_pos < Len(prep_train)
    /\ LET item == prep_train[prep_pos + 1]
       IN IF ProcessImageResult(item) = "None"
          THEN /\ failed_count' = failed_count + 1
               /\ UNCHANGED processed_count
          ELSE /\ processed_count' =
                     IF item.annotation # "missing" /\ UpdateAnnotationResult(item)
                     THEN processed_count + 1
                     ELSE processed_count
               /\ UNCHANGED failed_count
    /\ prep_pos' = prep_pos + 1
    /\ UNCHANGED <<prep_train, prep_test, pcPrep>>
    /\ UNCHANGED notPrep

\* Line 135: the train loop is over, the test images are listed.
PreprocessTestStart ==
    /\ pcPrep = "train"
    /\ prep_pos = Len(prep_train)
    /\ prep_pos' = 0
    /\ pcPrep' = "test"
    /\ UNCHANGED <<prep_train, prep_test, processed_count, failed_count>>
    /\ UNCHANGED notPrep

\* One pass of the test loop (lines 138-145).
PreprocessTestImage ==
    /\ pcPrep = "test"
    /\ prep_pos < Len(prep_test)
    /\ LET item == prep_test[prep_pos + 1]
       IN IF ProcessImageResult(item) # "None"
          THEN /\ processed_count' = processed_count + 1
               /\ UNCHANGED failed_count
          ELSE /\ failed_count' = failed_count + 1
               /\ UNCHANGED processed_count
    /\ prep_pos' = prep_pos + 1
    /\ UNCHANGED <<prep_train, prep_test, pcPrep>>
    /\ UNCHANGED notPrep

\* Lines 147-148.
PreprocessReturn ==
    /\ pcPrep = "test"
    /\ prep_pos = Len(prep_test)
    /\ pcPrep' = "done"
    /\ UNCHANGED <<prep_train, prep_test, prep_pos, processed_count,
                   failed_count>>
    /\ UNCHANGED notPrep

NextPrep ==
    \/ PreprocessTrainImage
    \/ PreprocessTestStart
    \/ PreprocessTestImage
    \/ PreprocessReturn

SpecPrep == InitPrep /\ [][NextPrep]_vars

\* C28: preprocess_dataset counts every input image exactly once: on return
\* processed_count + failed_count is the number of train images plus the
\* number of test images, whatever images are corrupt, annotations are
\* missing or annotation updates fail.
EveryImageIsCounted ==
    pcPrep = "done" =>
        processed_count + failed_count = Len(prep_train) + Len(prep_test)

--------------------------------------------------------------------------
(* Range of the quality metrics *)

\* C30: for every combination of image counts and label counts of the
\* three splits, each per-split consistency and the overall quality score
\* lie in [0, 1].
QualityMetricsInUnitInterval ==
    pcQual = "done" =>
        \A key \in DOMAIN metrics :
            metrics[key] >= 0 /\ metrics[key] <= Thousand

==========================================================================
